---------------------------- MODULE Spec2Model ----------------------------
(***************************************************************************)
(* A model of the k-nearest-neighbour line status classifier of knnCpp:    *)
(* phasor arithmetic, lineSample construction from two nodeSamples, the    *)
(* distanceSample metric and the knnPredictionOfUnknownLineSample / knn    *)
(* classifiers with their top-k scan and majority vote.                    *)
(*                                                                         *)
(* A C++ double is modelled as an exact rational [n, d] (d > 0, reduced);  *)
(* sqrt and hypot round down to a multiple of 1/SqrtPrecision and are      *)
(* exact on perfect squares.  Angles are whole degrees, and cos/sin are    *)
(* tabulated on the multiples of 90 degrees, where they are rational.      *)
(* A pointer to an object is the object's value, or a NULL value.          *)
(***************************************************************************)
EXTENDS Integers, Sequences, FiniteSets, TLC

(***************************************************************************)
(* double arithmetic                                                       *)
(***************************************************************************)
Abs(x) == IF x < 0 THEN -x ELSE x

\* the element of the singleton S.  The({e(x) : x \in {v}}) is e(v), with
\* the operand v evaluated once
The(S) == CHOOSE element \in S : TRUE

RECURSIVE GCD(_, _)
GCD(a, b) == The({IF y = 0 THEN x ELSE GCD(y, x % y) : x \in {a}, y \in {b}})

\* the double n/d, reduced, with a positive denominator
Rat(n, d) ==
    The({[n |-> (s * x) \div g, d |-> (s * y) \div g] :
            g \in {GCD(Abs(n), Abs(d))}, s \in {IF d < 0 THEN -1 ELSE 1},
            x \in {n}, y \in {d}})

R(i) == [n |-> i, d |-> 1]

RAdd(a, b) == The({Rat(x.n * y.d + y.n * x.d, x.d * y.d) : x \in {a}, y \in {b}})
RSub(a, b) == The({Rat(x.n * y.d - y.n * x.d, x.d * y.d) : x \in {a}, y \in {b}})
RMul(a, b) == The({Rat(x.n * y.n, x.d * y.d) : x \in {a}, y \in {b}})
\* a / b for b # 0
RDiv(a, b) == The({Rat(x.n * y.d, x.d * y.n) : x \in {a}, y \in {b}})

\* a < b, comparing the integer parts first so that a large value (the
\* default Distance) is never multiplied by a denominator
RLt(a, b) ==
    The({IF x.n \div x.d # y.n \div y.d THEN x.n \div x.d < y.n \div y.d
         ELSE (x.n - (x.n \div x.d) * x.d) * y.d < (y.n - (y.n \div y.d) * y.d) * x.d :
            x \in {a}, y \in {b}})

\* sqrt and hypot are rounded down to a multiple of 1/SqrtPrecision
SqrtPrecision == 100

RECURSIVE ISqrtBetween(_, _, _)
ISqrtBetween(x, lo, hi) ==
    IF lo >= hi THEN lo
    ELSE The({IF mid * mid <= x THEN ISqrtBetween(x, mid, hi)
              ELSE ISqrtBetween(x, lo, mid - 1) : mid \in {(lo + hi + 1) \div 2}})

\* floor of the square root of the natural number x (x < 2^30)
ISqrt(x) == The({ISqrtBetween(y, 0, IF y < 32767 THEN y ELSE 32767) : y \in {x}})

\* sqrt(a) for a >= 0: sqrt(n/d) = sqrt(n*d)/d
RSqrt(a) ==
    The({Rat(ISqrt(x.n * x.d * SqrtPrecision * SqrtPrecision), x.d * SqrtPrecision) :
            x \in {a}})

\* pow(a, 2)
RSquare(a) == The({RMul(x, x) : x \in {a}})

(***************************************************************************)
(* phasor                                                                  *)
(***************************************************************************)
\* cos(M_PI / 180 * a) and sin(M_PI / 180 * a) for a a multiple of 90
CosDeg(a) ==
    CASE a % 360 = 0 -> R(1)
      [] a % 360 = 90 -> R(0)
      [] a % 360 = 180 -> R(-1)
      [] a % 360 = 270 -> R(0)

SinDeg(a) ==
    CASE a % 360 = 0 -> R(0)
      [] a % 360 = 90 -> R(1)
      [] a % 360 = 180 -> R(0)
      [] a % 360 = 270 -> R(-1)

\* 180 / M_PI * atan(q), for the quotients whose arc tangent is a whole degree
AtanDeg(q) ==
    CASE q = R(0) -> 0
      [] q = R(1) -> 45
      [] q = R(-1) -> -45

UpdateRealAndImag(p) ==
    The({[this EXCEPT !.real = RMul(this.RMSvalue, CosDeg(this.PhaseAngleDegrees)),
                      !.imaginary = RMul(this.RMSvalue, SinDeg(this.PhaseAngleDegrees))] :
            this \in {p}})

UpdateRMSandPhase(p) ==
    The({LET rms == RSqrt(RAdd(RSquare(this.real), RSquare(this.imaginary)))
             atanDeg == AtanDeg(RDiv(this.imaginary, this.real))
             angle ==
                 IF this.real = R(0)
                 THEN IF RLt(this.imaginary, R(0)) THEN -90
                      ELSE IF RLt(R(0), this.imaginary) THEN 90
                      ELSE 0
                 ELSE IF RLt(this.real, R(0))
                      THEN IF ~RLt(this.imaginary, R(0)) THEN atanDeg + 180
                           ELSE atanDeg - 180
                      ELSE atanDeg
         IN  [this EXCEPT !.RMSvalue = rms, !.PhaseAngleDegrees = angle] :
            this \in {p}})

\* phasor::phasor(): the member defaults
phasorDefault ==
    [RMSvalue |-> R(0), PhaseAngleDegrees |-> 0, real |-> R(0), imaginary |-> R(0)]

\* phasor::phasor(double rmsValue, double phaseAngleDegrees)
phasor(rmsValue, phaseAngleDegrees) ==
    UpdateRealAndImag([phasorDefault EXCEPT !.RMSvalue = rmsValue,
                                            !.PhaseAngleDegrees = phaseAngleDegrees])

\* a loop that leaves the angle as it is (sensitivity of C11)
AngleKeptAbove180(angle) == angle

\* while (angle > 180) angle -= 360;
RECURSIVE WhileAbove180(_)
WhileAbove180(angle) == IF angle > 180 THEN WhileAbove180(angle - 360) ELSE angle

\* while (angle <= -180) angle += 360;
RECURSIVE WhileAtMostMinus180(_)
WhileAtMostMinus180(angle) ==
    IF angle <= -180 THEN WhileAtMostMinus180(angle + 360) ELSE angle

\* an operator- that adds (sensitivity of C17)
PhasorMinusAdds(p1, p2) ==
    The({UpdateRMSandPhase(
             [phasorDefault EXCEPT !.real = RAdd(this.real, other.real),
                                   !.imaginary = RAdd(this.imaginary, other.imaginary)]) :
            this \in {p1}, other \in {p2}})

\* operator-
PhasorMinus(p1, p2) ==
    The({UpdateRMSandPhase(
             [phasorDefault EXCEPT !.real = RSub(this.real, other.real),
                                   !.imaginary = RSub(this.imaginary, other.imaginary)]) :
            this \in {p1}, other \in {p2}})

\* operator*
PhasorTimes(p1, p2) ==
    The({UpdateRealAndImag(
             [phasorDefault EXCEPT
                 !.RMSvalue = RMul(this.RMSvalue, other.RMSvalue),
                 !.PhaseAngleDegrees =
                     WhileAtMostMinus180(WhileAbove180(
                         this.PhaseAngleDegrees + other.PhaseAngleDegrees))]) :
            this \in {p1}, other \in {p2}})

\* an operator/ without the guard of the zero divisor, which returns the
\* dividend (sensitivity of C19)
PhasorDivideKeepsDividend(p1, p2) ==
    The({IF other.RMSvalue = R(0)
         THEN this
         ELSE UpdateRealAndImag(
                 [phasor(R(0), 0) EXCEPT
                     !.RMSvalue = RDiv(this.RMSvalue, other.RMSvalue),
                     !.PhaseAngleDegrees =
                         WhileAtMostMinus180(WhileAbove180(
                             this.PhaseAngleDegrees - other.PhaseAngleDegrees))]) :
            this \in {p1}, other \in {p2}})

\* operator/ : the zero phasor when the divisor's RMSvalue is 0
PhasorDivide(p1, p2) ==
    The({IF other.RMSvalue = R(0)
         THEN UpdateRealAndImag([phasor(R(0), 0) EXCEPT !.RMSvalue = R(0),
                                                        !.PhaseAngleDegrees = 0])
         ELSE UpdateRealAndImag(
                 [phasor(R(0), 0) EXCEPT
                     !.RMSvalue = RDiv(this.RMSvalue, other.RMSvalue),
                     !.PhaseAngleDegrees =
                         WhileAtMostMinus180(WhileAbove180(
                             this.PhaseAngleDegrees - other.PhaseAngleDegrees))]) :
            this \in {p1}, other \in {p2}})

\* what operator/ prints
DivideReport(p1, p2) ==
    IF p2.RMSvalue = R(0) THEN "Error: Divisor phasor is 0." ELSE ""

\* pow(x, power) for a whole power, x # 0 when power < 0
RECURSIVE RPow(_, _)
RPow(x, power) ==
    IF power = 0 THEN R(1)
    ELSE IF power < 0 THEN RDiv(R(1), RPow(x, -power))
    ELSE RMul(x, RPow(x, power - 1))

\* a Pow that lets the zero phasor to the power 0 through (sensitivity of C20)
PowGuardsNegativePowersOnly(base, power) ==
    The({IF this.RMSvalue = R(0) /\ power < 0
         THEN UpdateRealAndImag([phasor(R(0), 0) EXCEPT !.RMSvalue = R(0),
                                                        !.PhaseAngleDegrees = 0])
         ELSE UpdateRealAndImag(
                 [phasor(R(0), 0) EXCEPT
                     !.RMSvalue = RPow(this.RMSvalue, power),
                     !.PhaseAngleDegrees =
                         WhileAtMostMinus180(WhileAbove180(
                             this.PhaseAngleDegrees * power))]) :
            this \in {base}})

\* phasor::Pow, for a whole power: the zero phasor when base is 0 and the
\* power is not positive
Pow(base, power) ==
    The({IF this.RMSvalue = R(0) /\ power <= 0
         THEN UpdateRealAndImag([phasor(R(0), 0) EXCEPT !.RMSvalue = R(0),
                                                        !.PhaseAngleDegrees = 0])
         ELSE UpdateRealAndImag(
                 [phasor(R(0), 0) EXCEPT
                     !.RMSvalue = RPow(this.RMSvalue, power),
                     !.PhaseAngleDegrees =
                         WhileAtMostMinus180(WhileAbove180(
                             this.PhaseAngleDegrees * power))]) :
            this \in {base}})

\* what Pow prints
PowReport(base, power) ==
    IF base.RMSvalue = R(0) /\ power <= 0
    THEN "Error: Base is 0 and power is non-positive." ELSE ""

(***************************************************************************)
(* parameter and nodeSample                                                *)
(***************************************************************************)
\* a NULL pointer
NULL == [null |-> TRUE]

\* parameter::parameter(phasor phasorr, name, units, startNodeNumber,
\* destinationNodeNumber); Samples = 0 stands for Samples = NULL
parameterOfPhasor(phasorr, name, units, startNodeNumber, destinationNodeNumber) ==
    [Samples |-> 0, NumberOfSamples |-> 0, Phasor |-> phasorr, Name |-> name,
     Units |-> units, StartNodeNumber |-> startNodeNumber,
     DestinationNodeNumber |-> destinationNodeNumber]

\* the sum of pow(Samples[sampleIndex].value, 2) over the first n elements;
\* Samples is the sequence of the values of the array
RECURSIVE SumOfSquares(_, _)
SumOfSquares(Samples, n) ==
    IF n <= 0 THEN 0 ELSE Samples[n] * Samples[n] + SumOfSquares(Samples, n - 1)

\* rms / NumberOfSamples of parameter::RMS, before the square root
MeanSquare(Samples, NumberOfSamples) ==
    Rat(SumOfSquares(Samples, NumberOfSamples), NumberOfSamples)

\* parameter::RMS
RMS(Samples, NumberOfSamples) ==
    IF NumberOfSamples > 0 THEN RSqrt(MeanSquare(Samples, NumberOfSamples))
    ELSE R(0)

\* the elements of Samples that parameter::RMS reads
RMSReads(NumberOfSamples) == 0..(NumberOfSamples - 1)

\* 180 / M_PI * asin(q) to the whole degree, q given by its sign and its
\* square
AsinDeg(sign, qSquared) ==
    sign * (CASE qSquared = R(0) -> 0
              [] qSquared = Rat(1, 2) -> 45
              [] qSquared = Rat(3, 4) -> 60
              [] qSquared = R(1) -> 90)

\* which branch parameter::PhaseAngleDegrees takes; rms * sqrt(2) is compared
\* by its square, twice the mean square
PhaseBranch(Samples, NumberOfSamples) ==
    LET first == Samples[1]
        peakSquared == RMul(R(2), MeanSquare(Samples, NumberOfSamples))
    IN  IF first >= 0 /\ ~RLt(R(first * first), peakSquared) THEN "at the peak"
        ELSE IF first <= 0 /\ ~RLt(R(first * first), peakSquared) THEN "at the trough"
        ELSE IF Samples[2] >= first THEN "ascending"
        ELSE IF first >= 0 THEN "descending, Q2"
        ELSE "descending, Q4"

\* parameter::PhaseAngleDegrees, to the whole degree
PhaseAngleDegrees(Samples, NumberOfSamples) ==
    LET first == Samples[1]
        sign == IF first < 0 THEN -1 ELSE 1
        asinDeg == AsinDeg(sign, RDiv(R(first * first),
                                      RMul(R(2), MeanSquare(Samples, NumberOfSamples))))
        branch == PhaseBranch(Samples, NumberOfSamples)
    IN  CASE branch = "at the peak" -> 90
          [] branch = "at the trough" -> -90
          [] branch = "ascending" -> asinDeg
          [] branch = "descending, Q2" -> 180 - asinDeg
          [] branch = "descending, Q4" -> -180 - asinDeg

\* the elements of Samples that parameter::PhaseAngleDegrees reads
PhaseAngleReads(Samples, NumberOfSamples) ==
    IF PhaseBranch(Samples, NumberOfSamples) \in {"at the peak", "at the trough"}
    THEN {0} ELSE {0, 1}

\* a CalculatePhasor that takes the magnitude of a single sample (sensitivity
\* of C23)
CalculatePhasorOfOneSample(Samples, NumberOfSamples) ==
    IF NumberOfSamples <= 0
    THEN [Phasor |-> phasorDefault,
          printed |-> "Insufficient number of samples to calculate a phasor.",
          reads |-> {}]
    ELSE IF NumberOfSamples = 1
    THEN [Phasor |-> phasor(RMS(Samples, NumberOfSamples), 0),
          printed |-> "",
          reads |-> RMSReads(NumberOfSamples)]
    ELSE [Phasor |-> phasor(RMS(Samples, NumberOfSamples),
                            PhaseAngleDegrees(Samples, NumberOfSamples)),
          printed |-> "",
          reads |-> RMSReads(NumberOfSamples)
                        \cup PhaseAngleReads(Samples, NumberOfSamples)]

\* parameter::CalculatePhasor: the phasor it returns, what it prints, and the
\* elements of Samples it reads
CalculatePhasor(Samples, NumberOfSamples) ==
    IF NumberOfSamples <= 1
    THEN [Phasor |-> phasorDefault,
          printed |-> "Insufficient number of samples to calculate a phasor.",
          reads |-> {}]
    ELSE [Phasor |-> phasor(RMS(Samples, NumberOfSamples),
                            PhaseAngleDegrees(Samples, NumberOfSamples)),
          printed |-> "",
          reads |-> RMSReads(NumberOfSamples)
                        \cup PhaseAngleReads(Samples, NumberOfSamples)]

\* parameter::parameter(instantaneousMeasurement* samples, int numberOfSamples,
\* name, units, startNodeNumber, destinationNodeNumber); samples is the
\* address of the array and contents its values
parameterOfSamples(samples, contents, numberOfSamples, name, units, startNode, destinationNode) ==
    [Samples |-> samples, NumberOfSamples |-> numberOfSamples,
     Phasor |-> CalculatePhasor(contents, numberOfSamples).Phasor, Name |-> name,
     Units |-> units, StartNodeNumber |-> startNode,
     DestinationNodeNumber |-> destinationNode]

defaultRatedVoltage == 250000
defaultRatedCurrent == 25

\* nodeSample::nodeSample(int nodeNumber, phasor voltage, phasor* currents,
\* int* currentDestinationNodes, int numberOfCurrents), followed by the caller's
\* assignment of the public ratings
nodeSample(nodeNumber, voltage, currents, currentDestinationNodes, ratedVoltage, ratedCurrent) ==
    [NodeNumber |-> nodeNumber,
     Voltage |-> parameterOfPhasor(voltage, <<"V", nodeNumber>>, "V", nodeNumber, 0),
     Currents |->
        [currentsIndex \in 1..Len(currents) |->
            parameterOfPhasor(currents[currentsIndex],
                <<"I", nodeNumber, currentDestinationNodes[currentsIndex]>>, "A",
                nodeNumber, currentDestinationNodes[currentsIndex])],
     NumberOfCurrents |-> Len(currents),
     RatedVoltage |-> ratedVoltage,
     RatedCurrent |-> ratedCurrent]

\* nodeSample::nodeSample(int nodeNumber, parameter* voltage,
\* parameter** currents, int numberOfCurrents), with the default ratings
nodeSampleOfParameters(nodeNumber, voltage, currents, numberOfCurrents) ==
    [NodeNumber |-> nodeNumber,
     Voltage |-> voltage,
     Currents |-> currents,
     NumberOfCurrents |-> numberOfCurrents,
     RatedVoltage |-> defaultRatedVoltage,
     RatedCurrent |-> defaultRatedCurrent]

(***************************************************************************)
(* lineSample                                                              *)
(***************************************************************************)
\* the member defaults of lineSample.h; a NULL parameter** is <<>>
lineSampleDefault ==
    [node1 |-> 0, node2 |-> 0,
     Node1LineCurrentNorm |-> NULL, Node2LineCurrentNorm |-> NULL,
     Node1VoltageNorm |-> NULL, Node2VoltageNorm |-> NULL,
     Node1OtherCurrentsNorm |-> <<>>, NumberOfNode1OtherCurrents |-> 0,
     Node2OtherCurrentsNorm |-> <<>>, NumberOfNode2OtherCurrents |-> 0,
     IsWorking |-> TRUE]

\* a FreeMemory that forgets Node1LineCurrentNorm (sensitivity of C9)
LineFreeMemoryKeepsNode1Current(ls) ==
    [ls EXCEPT
        !.Node2LineCurrentNorm = NULL,
        !.Node1VoltageNorm = NULL, !.Node2VoltageNorm = NULL,
        !.Node1OtherCurrentsNorm = <<>>,
        !.NumberOfNode1OtherCurrents =
            IF ls.Node1OtherCurrentsNorm # <<>> THEN 0 ELSE @,
        !.Node2OtherCurrentsNorm = <<>>,
        !.NumberOfNode2OtherCurrents =
            IF ls.Node2OtherCurrentsNorm # <<>> THEN 0 ELSE @]

\* lineSample::FreeMemory
LineFreeMemory(ls) ==
    [ls EXCEPT
        !.Node1LineCurrentNorm = NULL, !.Node2LineCurrentNorm = NULL,
        !.Node1VoltageNorm = NULL, !.Node2VoltageNorm = NULL,
        !.Node1OtherCurrentsNorm = <<>>,
        !.NumberOfNode1OtherCurrents =
            IF ls.Node1OtherCurrentsNorm # <<>> THEN 0 ELSE @,
        !.Node2OtherCurrentsNorm = <<>>,
        !.NumberOfNode2OtherCurrents =
            IF ls.Node2OtherCurrentsNorm # <<>> THEN 0 ELSE @]

\* the loops of lines 93-100 and 114-121: the index (from 0) of the first
\* current of node whose destination is destinationNode, or -1
RECURSIVE FindLineCurrent(_, _, _)
FindLineCurrent(node, destinationNode, currentIndex) ==
    IF currentIndex >= node.NumberOfCurrents THEN -1
    ELSE IF node.Currents[currentIndex + 1].DestinationNodeNumber = destinationNode
         THEN currentIndex
         ELSE FindLineCurrent(node, destinationNode, currentIndex + 1)

\* a normalization that copies the source and does not divide (sensitivity of C10)
NormalizedWithoutDivision(source, rated) == source

\* *norm = *source; norm->Phasor = source->Phasor / phasor(rated, 0)
Normalized(source, rated) ==
    [source EXCEPT !.Phasor = PhasorDivide(source.Phasor, phasor(R(rated), 0))]

\* the loops of lines 160-187 and 204-230 from currentIndex on
RECURSIVE OtherCurrentsLoop(_, _, _, _, _)
OtherCurrentsLoop(node, otherNodeNumber, currentIndex, foundCurrent, others) ==
    IF currentIndex >= node.NumberOfCurrents THEN others
    ELSE IF ~foundCurrent
         THEN IF node.Currents[currentIndex + 1].DestinationNodeNumber = otherNodeNumber
              THEN OtherCurrentsLoop(node, otherNodeNumber, currentIndex + 1, TRUE, others)
              ELSE OtherCurrentsLoop(node, otherNodeNumber, currentIndex + 1, FALSE,
                      [others EXCEPT ![currentIndex + 1] =
                          Normalized(node.Currents[currentIndex + 1], node.RatedCurrent)])
         ELSE OtherCurrentsLoop(node, otherNodeNumber, currentIndex + 1, TRUE,
                  [others EXCEPT ![currentIndex] =
                      Normalized(node.Currents[currentIndex + 1], node.RatedCurrent)])

\* other currents that leave out every current to the other node, not only
\* the line current (sensitivity of C12)
OtherCurrentsWithoutAnyLineCurrent(node, otherNodeNumber) ==
    IF node.NumberOfCurrents <= 1 THEN <<>>
    ELSE SelectSeq([currentIndex \in 1..node.NumberOfCurrents |->
                       Normalized(node.Currents[currentIndex], node.RatedCurrent)],
                   LAMBDA current : current.DestinationNodeNumber # otherNodeNumber)

\* lines 147-188 and 191-231: the other currents of node and their number
OtherCurrentsNorm(node, otherNodeNumber) ==
    IF node.NumberOfCurrents <= 1 THEN <<>>
    ELSE OtherCurrentsLoop(node, otherNodeNumber, 0, FALSE,
             [initializingIndex \in 1..(node.NumberOfCurrents - 1) |-> NULL])

NumberOfOtherCurrents(node) ==
    IF node.NumberOfCurrents <= 1 THEN 0 ELSE node.NumberOfCurrents - 1

\* lineSample::lineSample(nodeSample* node1, nodeSample* node2, bool isWorking)
lineSample(node1, node2, isWorking) ==
    LET start == [lineSampleDefault EXCEPT !.node1 = node1.NodeNumber,
                                           !.node2 = node2.NodeNumber,
                                           !.IsWorking = isWorking]
        index1 == FindLineCurrent(node1, node2.NodeNumber, 0)
        index2 == FindLineCurrent(node2, node1.NodeNumber, 0)
        with1 == [start EXCEPT !.Node1LineCurrentNorm =
                     Normalized(node1.Currents[index1 + 1], node1.RatedCurrent)]
        with2 == [with1 EXCEPT !.Node2LineCurrentNorm =
                     Normalized(node2.Currents[index2 + 1], node2.RatedCurrent)]
    IN  IF index1 = -1
        THEN LineFreeMemory([start EXCEPT !.Node1LineCurrentNorm =
                                parameterOfPhasor(phasor(R(0), 0), <<>>, "", 0, 0)])
        ELSE IF index2 = -1
        THEN LineFreeMemory([with1 EXCEPT !.Node2LineCurrentNorm =
                                parameterOfPhasor(phasor(R(0), 0), <<>>, "", 0, 0)])
        ELSE [with2 EXCEPT
                !.Node1VoltageNorm = Normalized(node1.Voltage, node1.RatedVoltage),
                !.Node2VoltageNorm = Normalized(node2.Voltage, node2.RatedVoltage),
                !.NumberOfNode1OtherCurrents = NumberOfOtherCurrents(node1),
                !.Node1OtherCurrentsNorm = OtherCurrentsNorm(node1, node2.NodeNumber),
                !.NumberOfNode2OtherCurrents = NumberOfOtherCurrents(node2),
                !.Node2OtherCurrentsNorm = OtherCurrentsNorm(node2, node1.NodeNumber)]

(***************************************************************************)
(* distanceSample                                                          *)
(***************************************************************************)
\* the lineSample objects on the heap; a lineSample* is an index of LineHeap
\* and 0 is the NULL lineSample*.  Every line joins node 1 and node 2; node 1
\* has one other current and node 2 has two.
HeapNode1(voltage, lineCurrent, otherDestination) ==
    nodeSample(1, phasor(R(voltage), 0),
               <<phasor(R(25), 180), phasor(R(lineCurrent), 0)>>,
               <<otherDestination, 2>>, defaultRatedVoltage, defaultRatedCurrent)

HeapNode2 ==
    nodeSample(2, phasor(R(250000), 0),
               <<phasor(R(25), 180), phasor(R(25), 0), phasor(R(25), 0)>>,
               <<1, 0, 3>>, defaultRatedVoltage, defaultRatedCurrent)

\* node 1 built from parameters the caller addresses and names: the voltage,
\* an other current to node 0 and the line current to node 2
HeapParameterNode1(voltageStart, voltageDestination, lineStart, otherStart, units) ==
    nodeSampleOfParameters(1,
        parameterOfPhasor(phasor(R(250000), 0), <<"bus">>, units,
                          voltageStart, voltageDestination),
        <<parameterOfPhasor(phasor(R(25), 180), <<"load">>, units, otherStart, 0),
          parameterOfPhasor(phasor(R(25), 0), <<"line">>, units, lineStart, 2)>>,
        2)

\* node 2 with a larger other current to node 0
HeapNode2Loaded ==
    nodeSample(2, phasor(R(250000), 0),
               <<phasor(R(25), 180), phasor(R(75), 0), phasor(R(25), 0)>>,
               <<1, 0, 3>>, defaultRatedVoltage, defaultRatedCurrent)

LineHeap ==
    << \* 1, 2: the line with the unknown status, with either assumed status
       lineSample(HeapNode1(250000, 25, 0), HeapNode2, TRUE),
       lineSample(HeapNode1(250000, 25, 0), HeapNode2, FALSE),
       \* 3: the same measurements, working
       lineSample(HeapNode1(250000, 25, 0), HeapNode2, TRUE),
       \* 4, 5: the node 1 voltage doubled, not working and working
       lineSample(HeapNode1(500000, 25, 0), HeapNode2, FALSE),
       lineSample(HeapNode1(500000, 25, 0), HeapNode2, TRUE),
       \* 6: another topology (the other current of node 1 goes to node 3)
       lineSample(HeapNode1(250000, 25, 3), HeapNode2, FALSE),
       \* 7: a lineSample whose construction failed (node 1 has no current
       \* to node 2)
       lineSample(nodeSample(1, phasor(R(250000), 0),
                             <<phasor(R(25), 180), phasor(R(25), 0)>>, <<0, 3>>,
                             defaultRatedVoltage, defaultRatedCurrent),
                  HeapNode2, TRUE),
       \* 8: the measurements of 1 under other names and units
       lineSample(HeapParameterNode1(1, 0, 1, 1, "pu"), HeapNode2, TRUE),
       \* 9: the voltage of node 1 has the destination node 7
       lineSample(HeapParameterNode1(1, 7, 1, 1, "V"), HeapNode2, TRUE),
       \* 10: the voltage of node 1 has the start node 9
       lineSample(HeapParameterNode1(9, 0, 1, 1, "V"), HeapNode2, TRUE),
       \* 11: the line current of node 1 has the start node 5
       lineSample(HeapParameterNode1(1, 0, 5, 1, "V"), HeapNode2, TRUE),
       \* 12: the other current of node 1 has the start node 5
       lineSample(HeapParameterNode1(1, 0, 1, 5, "V"), HeapNode2, TRUE),
       \* 13: node 1 has two other currents
       lineSample(nodeSample(1, phasor(R(250000), 0),
                             <<phasor(R(25), 180), phasor(R(25), 0), phasor(R(5), 90)>>,
                             <<0, 2, 3>>, defaultRatedVoltage, defaultRatedCurrent),
                  HeapNode2, TRUE),
       \* 14, 15: node 1 has no other current; the line current is 25 and 50
       lineSample(nodeSample(1, phasor(R(250000), 0), <<phasor(R(25), 0)>>, <<2>>,
                             defaultRatedVoltage, defaultRatedCurrent),
                  HeapNode2, TRUE),
       lineSample(nodeSample(1, phasor(R(250000), 0), <<phasor(R(50), 0)>>, <<2>>,
                             defaultRatedVoltage, defaultRatedCurrent),
                  HeapNode2, FALSE),
       \* 16: as 14, with the larger other current at node 2
       lineSample(nodeSample(1, phasor(R(250000), 0), <<phasor(R(25), 0)>>, <<2>>,
                             defaultRatedVoltage, defaultRatedCurrent),
                  HeapNode2Loaded, TRUE) >>

UnknownPointers == {1, 2}
KnownPointers == 3..6
\* every lineSample* a caller can hold: the NULL pointer and the heap objects
LinePointers == {0} \cup DOMAIN LineHeap

\* the weights of distanceSample.h
wLine == 20
wNode == 4
wOther == 1
\* the default of distanceSample::Distance
DefaultDistance == 1000000000

\* a loop that compares the start nodes only (sensitivity of C13)
RECURSIVE OtherCurrentsMatchStartOnly(_, _, _, _)
OtherCurrentsMatchStartOnly(knownOthers, unknownOthers, numberOfOthers, comparingIndex) ==
    IF comparingIndex >= numberOfOthers THEN TRUE
    ELSE IF knownOthers[comparingIndex + 1].StartNodeNumber #
                unknownOthers[comparingIndex + 1].StartNodeNumber
         THEN FALSE
         ELSE OtherCurrentsMatchStartOnly(knownOthers, unknownOthers, numberOfOthers,
                                          comparingIndex + 1)

\* the loops of lines 55-66 and 69-80: FALSE at the first position whose
\* start or destination node differs
RECURSIVE OtherCurrentsMatch(_, _, _, _)
OtherCurrentsMatch(knownOthers, unknownOthers, numberOfOthers, comparingIndex) ==
    IF comparingIndex >= numberOfOthers THEN TRUE
    ELSE IF knownOthers[comparingIndex + 1].StartNodeNumber #
                unknownOthers[comparingIndex + 1].StartNodeNumber
         THEN FALSE
         ELSE IF knownOthers[comparingIndex + 1].DestinationNodeNumber #
                     unknownOthers[comparingIndex + 1].DestinationNodeNumber
              THEN FALSE
              ELSE OtherCurrentsMatch(knownOthers, unknownOthers, numberOfOthers,
                                      comparingIndex + 1)

\* a comparison that also wants the two statuses equal (sensitivity of C15)
AreSamplesWithTheSameStatus(sampleWithKnownStatus, sampleWithUnknownStatus) ==
    IF sampleWithKnownStatus = 0 \/ sampleWithUnknownStatus = 0 THEN FALSE
    ELSE
    \A known \in {LineHeap[sampleWithKnownStatus]},
       unknown \in {LineHeap[sampleWithUnknownStatus]} :
        /\ known.IsWorking = unknown.IsWorking
        /\ known.Node1LineCurrentNorm.StartNodeNumber =
               unknown.Node1LineCurrentNorm.StartNodeNumber
        /\ known.Node1LineCurrentNorm.DestinationNodeNumber =
               unknown.Node1LineCurrentNorm.DestinationNodeNumber
        /\ known.Node2LineCurrentNorm.StartNodeNumber =
               unknown.Node2LineCurrentNorm.StartNodeNumber
        /\ known.Node2LineCurrentNorm.DestinationNodeNumber =
               unknown.Node2LineCurrentNorm.DestinationNodeNumber
        /\ known.Node1VoltageNorm.StartNodeNumber =
               unknown.Node1VoltageNorm.StartNodeNumber
        /\ known.Node2VoltageNorm.StartNodeNumber =
               unknown.Node2VoltageNorm.StartNodeNumber
        /\ known.NumberOfNode1OtherCurrents = unknown.NumberOfNode1OtherCurrents
        /\ OtherCurrentsMatch(known.Node1OtherCurrentsNorm,
                              unknown.Node1OtherCurrentsNorm,
                              known.NumberOfNode1OtherCurrents, 0)
        /\ known.NumberOfNode2OtherCurrents = unknown.NumberOfNode2OtherCurrents
        /\ OtherCurrentsMatch(known.Node2OtherCurrentsNorm,
                              unknown.Node2OtherCurrentsNorm,
                              known.NumberOfNode2OtherCurrents, 0)

\* distanceSample::AreSamplesOfTheSameLine, on two lineSample*
AreSamplesOfTheSameLine(sampleWithKnownStatus, sampleWithUnknownStatus) ==
    IF sampleWithKnownStatus = 0 \/ sampleWithUnknownStatus = 0 THEN FALSE
    ELSE
    \A known \in {LineHeap[sampleWithKnownStatus]},
       unknown \in {LineHeap[sampleWithUnknownStatus]} :
        /\ known.Node1LineCurrentNorm.StartNodeNumber =
               unknown.Node1LineCurrentNorm.StartNodeNumber
        /\ known.Node1LineCurrentNorm.DestinationNodeNumber =
               unknown.Node1LineCurrentNorm.DestinationNodeNumber
        /\ known.Node2LineCurrentNorm.StartNodeNumber =
               unknown.Node2LineCurrentNorm.StartNodeNumber
        /\ known.Node2LineCurrentNorm.DestinationNodeNumber =
               unknown.Node2LineCurrentNorm.DestinationNodeNumber
        /\ known.Node1VoltageNorm.StartNodeNumber =
               unknown.Node1VoltageNorm.StartNodeNumber
        /\ known.Node2VoltageNorm.StartNodeNumber =
               unknown.Node2VoltageNorm.StartNodeNumber
        /\ known.NumberOfNode1OtherCurrents = unknown.NumberOfNode1OtherCurrents
        /\ OtherCurrentsMatch(known.Node1OtherCurrentsNorm,
                              unknown.Node1OtherCurrentsNorm,
                              known.NumberOfNode1OtherCurrents, 0)
        /\ known.NumberOfNode2OtherCurrents = unknown.NumberOfNode2OtherCurrents
        /\ OtherCurrentsMatch(known.Node2OtherCurrentsNorm,
                              unknown.Node2OtherCurrentsNorm,
                              known.NumberOfNode2OtherCurrents, 0)

\* a term that leaves the weight out (sensitivity of C18)
UnweightedSquare(weight, known, unknown) ==
    RSquare(PhasorMinus(known.Phasor, unknown.Phasor).RMSvalue)

\* weight * pow((known->Phasor - unknown->Phasor).RMSvalue, 2)
WeightedSquare(weight, known, unknown) ==
    RMul(weight, RSquare(PhasorMinus(known.Phasor, unknown.Phasor).RMSvalue))

\* the loops of lines 110-113 and 115-118
RECURSIVE OtherCurrentsSum(_, _, _, _, _)
OtherCurrentsSum(knownOthers, unknownOthers, numberOfCurrents, currentIndex, dist) ==
    IF currentIndex >= numberOfCurrents THEN dist
    ELSE OtherCurrentsSum(knownOthers, unknownOthers, numberOfCurrents, currentIndex + 1,
            RAdd(dist, WeightedSquare(RDiv(R(wOther), R(2 * numberOfCurrents)),
                                      knownOthers[currentIndex + 1],
                                      unknownOthers[currentIndex + 1])))

\* distanceSample::CalculateDistance, on two lineSample*
CalculateDistance(sampleWithKnownStatus, sampleWithUnknownStatus) ==
    The({LET lineCurrents ==
                 RAdd(WeightedSquare(RDiv(R(wLine), R(2)), known.Node1LineCurrentNorm,
                                     unknown.Node1LineCurrentNorm),
                      WeightedSquare(RDiv(R(wLine), R(2)), known.Node2LineCurrentNorm,
                                     unknown.Node2LineCurrentNorm))
             nodeVoltages ==
                 RAdd(RAdd(lineCurrents,
                           WeightedSquare(RDiv(R(wNode), R(2)), known.Node1VoltageNorm,
                                          unknown.Node1VoltageNorm)),
                      WeightedSquare(RDiv(R(wNode), R(2)), known.Node2VoltageNorm,
                                     unknown.Node2VoltageNorm))
             node1Others ==
                 OtherCurrentsSum(known.Node1OtherCurrentsNorm,
                                  unknown.Node1OtherCurrentsNorm,
                                  known.NumberOfNode1OtherCurrents, 0, nodeVoltages)
             node2Others ==
                 OtherCurrentsSum(known.Node2OtherCurrentsNorm,
                                  unknown.Node2OtherCurrentsNorm,
                                  known.NumberOfNode2OtherCurrents, 0, node1Others)
         IN  RSqrt(node2Others) :
            known \in {LineHeap[sampleWithKnownStatus]},
            unknown \in {LineHeap[sampleWithUnknownStatus]}})

\* a distanceSample that takes its label from the sample with the unknown
\* status (sensitivity of C8)
distanceSampleLabelledByQuery(sampleWithKnownStatus, sampleWithUnknownStatus) ==
    IF ~AreSamplesOfTheSameLine(sampleWithKnownStatus, sampleWithUnknownStatus)
    THEN [line |-> 0, Distance |-> R(DefaultDistance), IsWorking |-> TRUE]
    ELSE [line |-> sampleWithKnownStatus,
          Distance |-> CalculateDistance(sampleWithKnownStatus, sampleWithUnknownStatus),
          IsWorking |-> LineHeap[sampleWithUnknownStatus].IsWorking]

\* distanceSample::distanceSample(lineSample*, lineSample*): the member
\* defaults when the two are not samples of the same line
distanceSample(sampleWithKnownStatus, sampleWithUnknownStatus) ==
    IF ~AreSamplesOfTheSameLine(sampleWithKnownStatus, sampleWithUnknownStatus)
    THEN [line |-> 0, Distance |-> R(DefaultDistance), IsWorking |-> TRUE]
    ELSE [line |-> sampleWithKnownStatus,
          Distance |-> CalculateDistance(sampleWithKnownStatus, sampleWithUnknownStatus),
          IsWorking |-> LineHeap[sampleWithKnownStatus].IsWorking]

\* new distanceSample(known, unknown) for every labeled sample and query of
\* the heap
NewDistanceSample ==
    [sampleWithKnownStatus \in KnownPointers, sampleWithUnknownStatus \in UnknownPointers |->
        distanceSample(sampleWithKnownStatus, sampleWithUnknownStatus)]

(***************************************************************************)
(* State                                                                   *)
(***************************************************************************)
VARIABLES
    \* lineSample construction: the arguments of the constructor, the object
    \* it leaves behind, and whether it has run
    argNode1, argNode2, argIsWorking, line, linePc,
    \* the classifier's members
    SamplesWithKnownStatuses, NumberOfKnownStatuses, SampleWithUnknownStatus,
    distances, numberOfNearestNeighbors, PredictedStatus,
    \* the distanceSample that new distanceSample(known, unknown) builds from
    \* the lineSamples of the heap, which no operation modifies
    distanceSampleOf,
    \* which class the classifier is ("" before construction), whether it is
    \* "new", "live" or "crashed", the operation that ran last with the k it
    \* was given, the invalid access that operation made, and whether every
    \* call so far was given a k within 1..NumberOfKnownStatuses
    cls, pc, lastOp, requested, fault, onlyValid,
    \* new distanceSample(ptrKnown, ptrUnknown): the two lineSample*, what
    \* AreSamplesOfTheSameLine returned, the distanceSample made, whether the
    \* constructor has run, and the invalid access it made
    ptrKnown, ptrUnknown, same, made, cmpPc, cmpFault,
    \* phasor arithmetic: the operands, the power opPower * 2^opPowerExponent,
    \* the phasor returned, what was printed, and which operation has run
    opThis, opOther, opPower, opPowerExponent, opResult, opReport, opPc,
    \* a parameter built from samples: the values of the sample array and how
    \* many times it was delete[]d, the nodeSample's parameter and the
    \* lineSample's copy of it, the elements the constructor read, what it
    \* printed, how far the objects' life has got, and the invalid access made
    bufferContents, bufferReleases, Voltage, Node1VoltageNorm, sampleReads,
    parReport, parPc, parFault

lineVars == <<argNode1, argNode2, argIsWorking, line, linePc>>

knnInputs ==
    <<SamplesWithKnownStatuses, NumberOfKnownStatuses, SampleWithUnknownStatus,
      distanceSampleOf>>

knnVars ==
    <<SamplesWithKnownStatuses, NumberOfKnownStatuses, SampleWithUnknownStatus,
      distanceSampleOf, distances, numberOfNearestNeighbors, PredictedStatus,
      cls, pc, lastOp, requested, fault, onlyValid>>

cmpVars == <<ptrKnown, ptrUnknown, same, made, cmpPc, cmpFault>>

phasorVars ==
    <<opThis, opOther, opPower, opPowerExponent, opResult, opReport, opPc>>

parameterVars ==
    <<bufferContents, bufferReleases, Voltage, Node1VoltageNorm, sampleReads,
      parReport, parPc, parFault>>

vars == <<lineVars, knnVars, cmpVars, phasorVars, parameterVars>>

(***************************************************************************)
(* Construction of a lineSample from two nodeSamples                       *)
(***************************************************************************)
\* the default of numberOfNearestNeighbors
DefaultNumberOfNearestNeighbors == 5

\* the most currents a nodeSample of the model holds
MaxCurrents == 3

NodeNumbers == {1, 2}
DestinationNodes == {0, 1, 2}

\* the angle of the current at each position of a node's current list; 270 is
\* an angle the polar constructor stores as given
CurrentAngles == <<0, 180, 270, -90, 90>>

CurrentPhasor(nodeNumber, position) ==
    phasor(R(5 * position * nodeNumber), CurrentAngles[position])

VoltagePhasor(nodeNumber) ==
    IF nodeNumber = 1 THEN phasor(R(250000), 0) ELSE phasor(R(245000), 90)

\* node 1 keeps the default ratings, node 2 has its own
RatedVoltageOf(nodeNumber) ==
    IF nodeNumber = 1 THEN defaultRatedVoltage ELSE 2 * defaultRatedVoltage

RatedCurrentOf(nodeNumber) ==
    IF nodeNumber = 1 THEN defaultRatedCurrent ELSE 2 * defaultRatedCurrent

DestinationLists ==
    UNION {[1..n -> DestinationNodes] : n \in 0..MaxCurrents}

NodePool(nodeNumbers) ==
    {nodeSample(nodeNumber, VoltagePhasor(nodeNumber),
                [position \in 1..Len(dests) |-> CurrentPhasor(nodeNumber, position)],
                dests, RatedVoltageOf(nodeNumber), RatedCurrentOf(nodeNumber)) :
        nodeNumber \in nodeNumbers, dests \in DestinationLists}

\* no distanceSample under construction
CmpDefaults ==
    /\ ptrKnown = 0
    /\ ptrUnknown = 0
    /\ same = FALSE
    /\ made = [line |-> 0, Distance |-> R(DefaultDistance), IsWorking |-> TRUE]
    /\ cmpPc = "new"
    /\ cmpFault = "none"

\* no phasor operation under way
PhasorDefaults ==
    /\ opThis = phasorDefault
    /\ opOther = phasorDefault
    /\ opPower = 0
    /\ opPowerExponent = 0
    /\ opResult = phasorDefault
    /\ opReport = ""
    /\ opPc = "new"

\* no parameter built from samples
ParameterDefaults ==
    /\ bufferContents = <<>>
    /\ bufferReleases = 0
    /\ Voltage = NULL
    /\ Node1VoltageNorm = NULL
    /\ sampleReads = {}
    /\ parReport = ""
    /\ parPc = "new"
    /\ parFault = "none"

\* the classifier before its construction: the member defaults
KnnDefaults ==
    /\ distances = <<>>
    /\ numberOfNearestNeighbors = DefaultNumberOfNearestNeighbors
    /\ PredictedStatus = TRUE
    /\ cls = ""
    /\ pc = "new"
    /\ lastOp = "none"
    /\ requested = 0
    /\ fault = "none"
    /\ onlyValid = TRUE

InitLine ==
    /\ distanceSampleOf = <<>>
    /\ SamplesWithKnownStatuses = <<>>
    /\ NumberOfKnownStatuses = 0
    /\ SampleWithUnknownStatus = 0
    /\ KnnDefaults
    /\ CmpDefaults
    /\ PhasorDefaults
    /\ ParameterDefaults
    /\ argNode1 \in NodePool({1})
    /\ argNode2 \in NodePool(NodeNumbers)
    /\ argIsWorking \in BOOLEAN
    /\ line = lineSampleDefault
    /\ linePc = "new"

\* new lineSample(argNode1, argNode2, argIsWorking)
ConstructLine ==
    /\ linePc = "new"
    /\ line' = lineSample(argNode1, argNode2, argIsWorking)
    /\ linePc' = "built"
    /\ UNCHANGED <<argNode1, argNode2, argIsWorking>>
    /\ UNCHANGED <<knnVars, cmpVars, phasorVars, parameterVars>>

NextLine == ConstructLine

SpecLine == InitLine /\ [][NextLine]_vars

(***************************************************************************)
(* knnPredictionOfUnknownLineSample and knn                                *)
(***************************************************************************)
\* the most labeled samples and the largest k of the model
MaxKnown == 5
MaxNeighbors == MaxKnown + 1

\* a loop body that never swaps (sensitivity of C24)
SwapNever(dists, nearestNeighborsIndex) == dists

\* a loop body that also swaps two equal Distances (sensitivity of C28)
SwapIfNotGreater(dists, nearestNeighborsIndex) ==
    CHOOSE swapped \in
        {IF ~RLt(array[nearestNeighborsIndex].Distance,
                 array[nearestNeighborsIndex + 1].Distance)
         THEN [array EXCEPT ![nearestNeighborsIndex] = array[nearestNeighborsIndex + 1],
                            ![nearestNeighborsIndex + 1] = array[nearestNeighborsIndex]]
         ELSE array : array \in {dists}} : TRUE

\* the body of the loop of SortDistances: swap slots j and j - 1 (from 0) when
\* the later Distance is the smaller (array is the value of dists, taken once)
SwapIfLess(dists, nearestNeighborsIndex) ==
    CHOOSE swapped \in
        {IF RLt(array[nearestNeighborsIndex + 1].Distance,
                array[nearestNeighborsIndex].Distance)
         THEN [array EXCEPT ![nearestNeighborsIndex] = array[nearestNeighborsIndex + 1],
                            ![nearestNeighborsIndex + 1] = array[nearestNeighborsIndex]]
         ELSE array : array \in {dists}} : TRUE

\* a sort that compares one pair of slots only (sensitivity of C1)
SortLoopOnce(dists, nearestNeighborsIndex) ==
    IF nearestNeighborsIndex > 0 THEN SwapIfLess(dists, nearestNeighborsIndex) ELSE dists

\* for (nearestNeighborsIndex = ...; nearestNeighborsIndex > 0; nearestNeighborsIndex--)
RECURSIVE SortLoop(_, _)
SortLoop(dists, nearestNeighborsIndex) ==
    IF nearestNeighborsIndex > 0
    THEN SortLoop(SwapIfLess(dists, nearestNeighborsIndex), nearestNeighborsIndex - 1)
    ELSE dists

\* SortDistances(int knownSampleIndex), on the array dists of k slots
SortDistances(dists, k, knownSampleIndex) ==
    SortLoop(dists, IF knownSampleIndex < k - 1 THEN knownSampleIndex ELSE k - 1)

\* a scan whose candidate also replaces the last slot when the two Distances
\* are equal (sensitivity of C25)
ScanBodyReplacesOnTie(known, unknown, array, k, knownSampleIndex) ==
    IF knownSampleIndex < k
    THEN IF knownSampleIndex > 0
         THEN SortDistances([array EXCEPT ![knownSampleIndex + 1] =
                                distanceSampleOf[known[knownSampleIndex + 1], unknown]],
                            k, knownSampleIndex)
         ELSE [array EXCEPT ![knownSampleIndex + 1] =
                  distanceSampleOf[known[knownSampleIndex + 1], unknown]]
    ELSE IF ~RLt(array[k].Distance,
                 distanceSampleOf[known[knownSampleIndex + 1], unknown].Distance)
         THEN SortDistances([array EXCEPT ![k] =
                                distanceSampleOf[known[knownSampleIndex + 1], unknown]],
                            k, knownSampleIndex)
         ELSE array

\* a scan that keeps the first k samples and discards every later candidate
\* (sensitivity of C29)
ScanBodyNeverReplaces(known, unknown, array, k, knownSampleIndex) ==
    IF knownSampleIndex < k
    THEN IF knownSampleIndex > 0
         THEN SortDistances([array EXCEPT ![knownSampleIndex + 1] =
                                distanceSampleOf[known[knownSampleIndex + 1], unknown]],
                            k, knownSampleIndex)
         ELSE [array EXCEPT ![knownSampleIndex + 1] =
                  distanceSampleOf[known[knownSampleIndex + 1], unknown]]
    ELSE array

\* the body of the scan of SetDistances for one knownSampleIndex (from 0), on
\* the array that is the value of distances
ScanBody(known, unknown, array, k, knownSampleIndex) ==
    IF knownSampleIndex < k
    THEN IF knownSampleIndex > 0
         THEN SortDistances([array EXCEPT ![knownSampleIndex + 1] =
                                distanceSampleOf[known[knownSampleIndex + 1], unknown]],
                            k, knownSampleIndex)
         ELSE [array EXCEPT ![knownSampleIndex + 1] =
                  distanceSampleOf[known[knownSampleIndex + 1], unknown]]
    ELSE IF RLt(distanceSampleOf[known[knownSampleIndex + 1], unknown].Distance,
                array[k].Distance)
         THEN SortDistances([array EXCEPT ![k] =
                                distanceSampleOf[known[knownSampleIndex + 1], unknown]],
                            k, knownSampleIndex)
         ELSE array

ScanStep(known, unknown, dists, k, knownSampleIndex) ==
    CHOOSE scanned \in
        {ScanBody(known, unknown, array, k, knownSampleIndex) : array \in {dists}} : TRUE

\* for (knownSampleIndex = ...; knownSampleIndex < NumberOfKnownStatuses; knownSampleIndex++)
RECURSIVE ScanLoop(_, _, _, _, _)
ScanLoop(known, unknown, dists, k, knownSampleIndex) ==
    IF knownSampleIndex >= Len(known) THEN dists
    ELSE ScanLoop(known, unknown, ScanStep(known, unknown, dists, k, knownSampleIndex),
                  k, knownSampleIndex + 1)

\* lines 74-115 of SetDistances: a new array of k NULL slots, then the scan
NewDistances(known, unknown, k) ==
    ScanLoop(known, unknown, [initializingIndex \in 1..k |-> NULL], k, 0)

\* the loop of PredictStatus from nearestNeighborIndex on, over filled slots
RECURSIVE CountWorking(_, _, _)
CountWorking(dists, k, nearestNeighborIndex) ==
    IF nearestNeighborIndex >= k THEN 0
    ELSE (IF dists[nearestNeighborIndex + 1].IsWorking = TRUE THEN 1 ELSE 0)
             + CountWorking(dists, k, nearestNeighborIndex + 1)

\* a vote that an equal split wins (sensitivity of C2)
PredictStatusAtLeastHalf(dists, k) ==
    LET numOfWorkingLines == CountWorking(dists, k, 0)
        numOfNotWorkingLines == k - numOfWorkingLines
    IN  numOfWorkingLines >= numOfNotWorkingLines

\* PredictStatus(), when distances holds k filled slots
PredictStatus(dists, k) ==
    LET numOfWorkingLines == CountWorking(dists, k, 0)
        numOfNotWorkingLines == k - numOfWorkingLines
    IN  numOfWorkingLines > numOfNotWorkingLines

\* PredictStatus() reads slots 0..k-1 of distances: whether each is a slot of
\* the array and holds a distanceSample
ReadsOnlyFilledSlots(dists, k) ==
    /\ k <= Len(dists)
    /\ \A slot \in 1..k : dists[slot] # NULL

Init ==
    /\ distanceSampleOf = NewDistanceSample
    /\ argNode1 = NULL /\ argNode2 = NULL /\ argIsWorking = TRUE
    /\ line = lineSampleDefault /\ linePc = "new"
    /\ NumberOfKnownStatuses \in 1..MaxKnown
    /\ SamplesWithKnownStatuses \in [1..NumberOfKnownStatuses -> KnownPointers]
    /\ SampleWithUnknownStatus \in UnknownPointers
    /\ KnnDefaults
    /\ CmpDefaults
    /\ PhasorDefaults
    /\ ParameterDefaults

\* knnPredictionOfUnknownLineSample(samplesWithKnownStatuses,
\* numberOfKnownStatuses, sampleWithUnknownStatus, numberOfNearestNeighbors):
\* the definition has no fourth parameter and leaves the member at its default
Construct(kArg) ==
    /\ pc = "new"
    /\ cls' = "knnPredictionOfUnknownLineSample"
    /\ lastOp' = "construct"
    /\ requested' = kArg
    /\ onlyValid' = (kArg <= NumberOfKnownStatuses
                     /\ numberOfNearestNeighbors <= NumberOfKnownStatuses)
    /\ UNCHANGED numberOfNearestNeighbors
    /\ IF numberOfNearestNeighbors > NumberOfKnownStatuses
       THEN \* SetDistances returns with distances NULL, and PredictStatus
            \* reads distances[0]
            /\ UNCHANGED distances
            /\ fault' = "PredictStatus reads a NULL slot"
            /\ \/ pc' = "crashed" /\ UNCHANGED PredictedStatus
               \/ pc' = "live" /\ PredictedStatus' \in BOOLEAN
       ELSE /\ distances' = NewDistances(SamplesWithKnownStatuses,
                                         SampleWithUnknownStatus,
                                         numberOfNearestNeighbors)
            /\ PredictedStatus' = PredictStatus(distances', numberOfNearestNeighbors)
            /\ fault' = "none"
            /\ pc' = "live"
    /\ UNCHANGED <<lineVars, knnInputs, cmpVars, phasorVars, parameterVars>>

\* knn(samplesWithKnownStatuses, numberOfKnownStatuses, sampleWithUnknownStatus,
\* numberOfNearestNeighbors) of KNN_PowerGridCpp.cpp
KnnConstruct(kArg) ==
    /\ pc = "new"
    /\ cls' = "knn"
    /\ lastOp' = "construct"
    /\ requested' = kArg
    /\ onlyValid' = (kArg <= NumberOfKnownStatuses)
    /\ numberOfNearestNeighbors' = kArg
    /\ distances' = NewDistances(SamplesWithKnownStatuses, SampleWithUnknownStatus, kArg)
    /\ IF ReadsOnlyFilledSlots(distances', kArg)
       THEN /\ PredictedStatus' = PredictStatus(distances', kArg)
            /\ fault' = "none"
            /\ pc' = "live"
       ELSE \* slots NumberOfKnownStatuses..k-1 are NULL and PredictStatus reads them
            /\ fault' = "PredictStatus reads a NULL slot"
            /\ \/ pc' = "crashed" /\ UNCHANGED PredictedStatus
               \/ pc' = "live" /\ PredictedStatus' \in BOOLEAN
    /\ UNCHANGED <<lineVars, knnInputs, cmpVars, phasorVars, parameterVars>>

\* the indices (from 0) that the freeing loop of SetDistances and FreeMemory
\* visits: freeingIndex < numberOfNearestNeighbors, the k of the object when
\* the loop runs
FreeingIndices(k) == 0..(k - 1)

\* ChangeNumberOfNearestNeighbors(int numberOfNearestNeighbors), with the
\* SetDistances it calls
ChangeNumberOfNearestNeighbors(kNew) ==
    /\ pc = "live"
    /\ cls = "knnPredictionOfUnknownLineSample"
    /\ UNCHANGED cls
    /\ requested' = kNew
    /\ onlyValid' = (onlyValid /\ kNew <= NumberOfKnownStatuses)
    /\ UNCHANGED PredictedStatus
    /\ IF numberOfNearestNeighbors = kNew
       THEN /\ lastOp' = "change: same k"
            /\ fault' = "none"
            /\ UNCHANGED <<numberOfNearestNeighbors, distances, pc>>
       ELSE /\ numberOfNearestNeighbors' = kNew
            /\ IF kNew > NumberOfKnownStatuses
               THEN /\ lastOp' = "change: rejected"
                    /\ fault' = "none"
                    /\ UNCHANGED <<distances, pc>>
               ELSE /\ lastOp' = "change: rebuilt"
                    /\ IF /\ distances # <<>>
                          /\ \E freeingIndex \in FreeingIndices(kNew) :
                                 freeingIndex >= Len(distances)
                       THEN \* the freeing loop reads distances[Len(distances)..kNew-1],
                            \* past the end of the old array, and deletes what it finds
                            /\ fault' = "SetDistances frees past the end of the array"
                            /\ \/ pc' = "crashed" /\ UNCHANGED distances
                               \/ /\ pc' = "live"
                                  /\ distances' = NewDistances(SamplesWithKnownStatuses,
                                                      SampleWithUnknownStatus, kNew)
                       ELSE /\ fault' = "none"
                            /\ pc' = "live"
                            /\ distances' = NewDistances(SamplesWithKnownStatuses,
                                                SampleWithUnknownStatus, kNew)
    /\ UNCHANGED <<lineVars, knnInputs, cmpVars, phasorVars, parameterVars>>

Next ==
    \/ \E kArg \in 1..MaxNeighbors : Construct(kArg)
    \/ \E kArg \in 1..MaxNeighbors : KnnConstruct(kArg)
    \/ \E kNew \in 1..MaxNeighbors : ChangeNumberOfNearestNeighbors(kNew)

Spec == Init /\ [][Next]_vars

(***************************************************************************)
(* Construction of a distanceSample from two lineSample*                   *)
(***************************************************************************)
\* the lineSample behind a non-NULL pointer has NULL features: its
\* constructor called FreeMemory
HasNullFeatures(sample) == LineHeap[sample].Node1LineCurrentNorm = NULL

InitDistance ==
    /\ distanceSampleOf = <<>>
    /\ SamplesWithKnownStatuses = <<>>
    /\ NumberOfKnownStatuses = 0
    /\ SampleWithUnknownStatus = 0
    /\ KnnDefaults
    /\ PhasorDefaults
    /\ ParameterDefaults
    /\ argNode1 = NULL /\ argNode2 = NULL /\ argIsWorking = TRUE
    /\ line = lineSampleDefault /\ linePc = "new"
    /\ ptrKnown \in LinePointers
    /\ ptrUnknown \in LinePointers
    /\ same = FALSE
    /\ made = [line |-> 0, Distance |-> R(DefaultDistance), IsWorking |-> TRUE]
    /\ cmpPc = "new"
    /\ cmpFault = "none"

\* new distanceSample(ptrKnown, ptrUnknown).  AreSamplesOfTheSameLine tests
\* the two lineSample* against NULL and then reads the features of both; the
\* features of a lineSample whose construction failed are NULL, and reading
\* through them stops the program or yields any answer
NewDistance ==
    /\ cmpPc = "new"
    /\ IF /\ ptrKnown # 0
          /\ ptrUnknown # 0
          /\ HasNullFeatures(ptrKnown) \/ HasNullFeatures(ptrUnknown)
       THEN /\ cmpFault' = "AreSamplesOfTheSameLine reads through a NULL feature"
            /\ \/ cmpPc' = "crashed" /\ UNCHANGED <<same, made>>
               \/ /\ cmpPc' = "built"
                  /\ same' \in BOOLEAN
                  /\ made' = IF same'
                             THEN [line |-> ptrKnown, Distance |-> R(0),
                                   IsWorking |-> LineHeap[ptrKnown].IsWorking]
                             ELSE made
       ELSE /\ cmpFault' = "none"
            /\ cmpPc' = "built"
            /\ same' = AreSamplesOfTheSameLine(ptrKnown, ptrUnknown)
            /\ made' = distanceSample(ptrKnown, ptrUnknown)
    /\ UNCHANGED <<ptrKnown, ptrUnknown>>
    /\ UNCHANGED <<lineVars, knnVars, phasorVars, parameterVars>>

NextDistance == NewDistance

SpecDistance == InitDistance /\ [][NextDistance]_vars

(***************************************************************************)
(* phasor division and Pow                                                 *)
(***************************************************************************)
\* the largest magnitude and power of the operands
MaxRMS == 3
MaxPower == 2

\* from 2^62 on, neighbouring doubles are 1024 or more apart: x - 360 and
\* x + 360 round back to x
SpacingExponent == 62

PhasorAngles == {-180, -90, 0, 90, 180, 270}

PhasorPool == {phasor(R(rms), angle) : rms \in 0..MaxRMS, angle \in PhasorAngles}

\* the powers opPower * 2^SpacingExponent are taken of the phasors of
\* magnitude 1, whose powers all have magnitude 1
InitPhasor ==
    /\ distanceSampleOf = <<>>
    /\ SamplesWithKnownStatuses = <<>>
    /\ NumberOfKnownStatuses = 0
    /\ SampleWithUnknownStatus = 0
    /\ KnnDefaults
    /\ CmpDefaults
    /\ ParameterDefaults
    /\ argNode1 = NULL /\ argNode2 = NULL /\ argIsWorking = TRUE
    /\ line = lineSampleDefault /\ linePc = "new"
    /\ opThis \in PhasorPool
    /\ opOther \in PhasorPool
    /\ opPower \in (-MaxPower)..MaxPower
    /\ opPowerExponent \in {0, SpacingExponent}
    /\ opPowerExponent # 0 => opThis.RMSvalue = R(1)
    /\ opResult = phasorDefault
    /\ opReport = ""
    /\ opPc = "new"

\* opThis * opOther
Multiply ==
    /\ opPc = "new"
    /\ opResult' = PhasorTimes(opThis, opOther)
    /\ opReport' = ""
    /\ opPc' = "multiplied"
    /\ UNCHANGED <<opThis, opOther, opPower, opPowerExponent>>
    /\ UNCHANGED <<lineVars, knnVars, cmpVars, parameterVars>>

\* opThis / opOther
Divide ==
    /\ opPc = "new"
    /\ opResult' = PhasorDivide(opThis, opOther)
    /\ opReport' = DivideReport(opThis, opOther)
    /\ opPc' = "divided"
    /\ UNCHANGED <<opThis, opOther, opPower, opPowerExponent>>
    /\ UNCHANGED <<lineVars, knnVars, cmpVars, parameterVars>>

\* whether the two while loops of Pow come to an end: the product
\* base.PhaseAngleDegrees * power is a whole number of degrees, and from
\* 2^SpacingExponent on -= 360 and += 360 leave it as it is
PowLoopsEnd(base, power, powerExponent) ==
    \/ base.RMSvalue = R(0) /\ power <= 0
    \/ powerExponent < SpacingExponent
    \/ base.PhaseAngleDegrees * power = 0

\* phasor::Pow(opThis, opPower * 2^opPowerExponent); a base of magnitude 1
\* and a product angle of 0 give the phasor that the power opPower gives
Raise ==
    /\ opPc = "new"
    /\ IF PowLoopsEnd(opThis, opPower, opPowerExponent)
       THEN /\ opResult' = Pow(opThis, opPower)
            /\ opReport' = PowReport(opThis, opPower)
            /\ opPc' = "raised"
       ELSE /\ opPc' = "hung"
            /\ UNCHANGED <<opResult, opReport>>
    /\ UNCHANGED <<opThis, opOther, opPower, opPowerExponent>>
    /\ UNCHANGED <<lineVars, knnVars, cmpVars, parameterVars>>

NextPhasor == Multiply \/ Divide \/ Raise

SpecPhasor == InitPhasor /\ [][NextPhasor]_vars

(***************************************************************************)
(* A parameter built from samples, copied by a lineSample, and destroyed   *)
(***************************************************************************)
\* the most samples of an array, and the values a sample takes
MaxSamples == 3
SampleValues == {-1, 0, 1}

\* the address of the sample array
SampleArray == 1

\* the arrays whose phase angle is a multiple of 90, the angles whose cosine
\* and sine are tabulated
HasTabulatedAngle(contents) ==
    \/ Len(contents) <= 1
    \/ PhaseBranch(contents, Len(contents)) \in {"at the peak", "at the trough"}
    \/ contents[1] = 0

SampleArrays ==
    {contents \in UNION {[1..n -> SampleValues] : n \in 0..MaxSamples} :
        HasTabulatedAngle(contents)}

InitParameter ==
    /\ distanceSampleOf = <<>>
    /\ SamplesWithKnownStatuses = <<>>
    /\ NumberOfKnownStatuses = 0
    /\ SampleWithUnknownStatus = 0
    /\ KnnDefaults
    /\ CmpDefaults
    /\ PhasorDefaults
    /\ argNode1 = NULL /\ argNode2 = NULL /\ argIsWorking = TRUE
    /\ line = lineSampleDefault /\ linePc = "new"
    /\ bufferContents \in SampleArrays
    /\ bufferReleases = 0
    /\ Voltage = NULL
    /\ Node1VoltageNorm = NULL
    /\ sampleReads = {}
    /\ parReport = ""
    /\ parPc = "new"
    /\ parFault = "none"

\* Voltage = new parameter(samples, numberOfSamples, "V1", "V", 1, 0), handed
\* to nodeSample(1, Voltage, currents, numberOfCurrents)
NewParameter ==
    /\ parPc = "new"
    /\ Voltage' = parameterOfSamples(SampleArray, bufferContents, Len(bufferContents),
                                     <<"V", 1>>, "V", 1, 0)
    /\ sampleReads' = CalculatePhasor(bufferContents, Len(bufferContents)).reads
    /\ parReport' = CalculatePhasor(bufferContents, Len(bufferContents)).printed
    /\ parPc' = "built"
    /\ UNCHANGED <<bufferContents, bufferReleases, Node1VoltageNorm, parFault>>
    /\ UNCHANGED <<lineVars, knnVars, cmpVars, phasorVars>>

\* the lineSample constructor: Node1VoltageNorm = new parameter();
\* *Node1VoltageNorm = *node1->Voltage; and the division of the Phasor by
\* the node's RatedVoltage, which its owner has set to 2
CopyParameter ==
    /\ parPc = "built"
    /\ Voltage # NULL
    /\ Node1VoltageNorm' = Normalized(Voltage, 2)
    /\ parPc' = "copied"
    /\ UNCHANGED <<bufferContents, bufferReleases, Voltage, sampleReads, parReport,
                   parFault>>
    /\ UNCHANGED <<lineVars, knnVars, cmpVars, phasorVars>>

\* parameter::~parameter, parameter::FreeMemory of the object this: delete[]
\* Samples when it is not NULL; a second delete[] of the array is undefined,
\* the program stops there or goes on
Destroyed(this) ==
    /\ bufferReleases' = IF this.Samples # 0 THEN bufferReleases + 1 ELSE bufferReleases
    /\ IF this.Samples # 0 /\ bufferReleases > 0
       THEN /\ parFault' = "delete[] of an array already released"
            /\ parPc' \in {parPc, "crashed"}
       ELSE UNCHANGED <<parFault, parPc>>

\* lineSample::FreeMemory: delete Node1VoltageNorm
DeleteNode1VoltageNorm ==
    /\ parPc = "copied"
    /\ Node1VoltageNorm # NULL
    /\ Destroyed(Node1VoltageNorm)
    /\ Node1VoltageNorm' = NULL
    /\ UNCHANGED <<bufferContents, Voltage, sampleReads, parReport>>
    /\ UNCHANGED <<lineVars, knnVars, cmpVars, phasorVars>>

\* nodeSample::FreeMemory: delete Voltage
DeleteVoltage ==
    /\ parPc \in {"built", "copied"}
    /\ Voltage # NULL
    /\ Destroyed(Voltage)
    /\ Voltage' = NULL
    /\ UNCHANGED <<bufferContents, Node1VoltageNorm, sampleReads, parReport>>
    /\ UNCHANGED <<lineVars, knnVars, cmpVars, phasorVars>>

NextParameter ==
    NewParameter \/ CopyParameter \/ DeleteNode1VoltageNorm \/ DeleteVoltage

SpecParameter == InitParameter /\ [][NextParameter]_vars

(***************************************************************************)
(* Properties of lineSample construction (SpecLine)                        *)
(***************************************************************************)
\* node has a current whose destination is destinationNode
HasCurrentTo(node, destinationNode) ==
    \E position \in 1..node.NumberOfCurrents :
        node.Currents[position].DestinationNodeNumber = destinationNode

\* the position of the first current of node whose destination is destinationNode
FirstCurrentTo(node, destinationNode) ==
    CHOOSE position \in 1..node.NumberOfCurrents :
        /\ node.Currents[position].DestinationNodeNumber = destinationNode
        /\ \A earlier \in 1..(position - 1) :
               node.Currents[earlier].DestinationNodeNumber # destinationNode

BothLineCurrentsExist ==
    /\ HasCurrentTo(argNode1, argNode2.NodeNumber)
    /\ HasCurrentTo(argNode2, argNode1.NodeNumber)

\* every normalized line current and voltage is present
LineIsBuilt ==
    /\ line.Node1LineCurrentNorm # NULL /\ line.Node2LineCurrentNorm # NULL
    /\ line.Node1VoltageNorm # NULL /\ line.Node2VoltageNorm # NULL

\* every normalized feature is absent and both counts are 0
LineIsDiscarded ==
    /\ line.Node1LineCurrentNorm = NULL /\ line.Node2LineCurrentNorm = NULL
    /\ line.Node1VoltageNorm = NULL /\ line.Node2VoltageNorm = NULL
    /\ line.Node1OtherCurrentsNorm = <<>> /\ line.NumberOfNode1OtherCurrents = 0
    /\ line.Node2OtherCurrentsNorm = <<>> /\ line.NumberOfNode2OtherCurrents = 0

\* C9: a constructed lineSample has its features only if node1 has a current
\* to node2 and node2 has a current to node1; if either current is absent,
\* every normalized feature is NULL and both other-current counts are 0, so
\* the object is either fully built or fully discarded.
C9_BuiltOnlyWithBothLineCurrents ==
    linePc = "built" =>
        /\ LineIsBuilt => BothLineCurrentsExist
        /\ ~BothLineCurrentsExist => LineIsDiscarded
        /\ LineIsBuilt \/ LineIsDiscarded

\* C9 witness: node1 has the current to node2, so Node1LineCurrentNorm was
\* filled, node2 has no current to node1, and the object was discarded
C9_Witness_SecondCurrentMissing ==
    /\ linePc = "built"
    /\ HasCurrentTo(argNode1, argNode2.NodeNumber)
    /\ ~HasCurrentTo(argNode2, argNode1.NodeNumber)
    /\ LineIsDiscarded

\* norm is the parameter original with its magnitude divided by rated
IsNormalizedFrom(norm, original, rated) ==
    /\ norm.Name = original.Name
    /\ norm.StartNodeNumber = original.StartNodeNumber
    /\ norm.DestinationNodeNumber = original.DestinationNodeNumber
    /\ RMul(norm.Phasor.RMSvalue, R(rated)) = original.Phasor.RMSvalue

\* C10: in a built lineSample each line current is the first current of its
\* node whose destination is the other node, with the magnitude divided by
\* the node's rated current, and each voltage is the node's voltage with the
\* magnitude divided by the node's rated voltage.
C10_NormalizedByRatedValues ==
    (linePc = "built" /\ LineIsBuilt) =>
        /\ IsNormalizedFrom(line.Node1LineCurrentNorm,
               argNode1.Currents[FirstCurrentTo(argNode1, argNode2.NodeNumber)],
               argNode1.RatedCurrent)
        /\ IsNormalizedFrom(line.Node2LineCurrentNorm,
               argNode2.Currents[FirstCurrentTo(argNode2, argNode1.NodeNumber)],
               argNode2.RatedCurrent)
        /\ IsNormalizedFrom(line.Node1VoltageNorm, argNode1.Voltage, argNode1.RatedVoltage)
        /\ IsNormalizedFrom(line.Node2VoltageNorm, argNode2.Voltage, argNode2.RatedVoltage)

\* C10 witness: a built lineSample between nodes of different ratings whose
\* node1 has two currents to node2, the first of them at the second position
C10_Witness_FirstOfTwoCurrents ==
    /\ linePc = "built" /\ LineIsBuilt
    /\ argNode2.NodeNumber = 2
    /\ argNode1.RatedCurrent # argNode2.RatedCurrent
    /\ argNode1.NumberOfCurrents = 3
    /\ FirstCurrentTo(argNode1, 2) = 2
    /\ argNode1.Currents[3].DestinationNodeNumber = 2
    /\ line.Node1LineCurrentNorm.Phasor.RMSvalue = Rat(10, defaultRatedCurrent)

\* the currents of node without the first one whose destination is
\* otherNodeNumber, in their order
OtherSources(node, otherNodeNumber) ==
    [position \in 1..(node.NumberOfCurrents - 1) |->
        node.Currents[IF position < FirstCurrentTo(node, otherNodeNumber)
                      THEN position ELSE position + 1]]

\* every normalized feature of the built line, paired with the parameter of
\* the nodeSample it was made from
FeaturesWithSources ==
    {<<line.Node1LineCurrentNorm,
       argNode1.Currents[FirstCurrentTo(argNode1, argNode2.NodeNumber)]>>,
     <<line.Node2LineCurrentNorm,
       argNode2.Currents[FirstCurrentTo(argNode2, argNode1.NodeNumber)]>>,
     <<line.Node1VoltageNorm, argNode1.Voltage>>,
     <<line.Node2VoltageNorm, argNode2.Voltage>>}
    \cup {<<line.Node1OtherCurrentsNorm[position],
            OtherSources(argNode1, argNode2.NodeNumber)[position]>> :
                position \in 1..line.NumberOfNode1OtherCurrents}
    \cup {<<line.Node2OtherCurrentsNorm[position],
            OtherSources(argNode2, argNode1.NodeNumber)[position]>> :
                position \in 1..line.NumberOfNode2OtherCurrents}

\* the angle in -179..180 that differs from angle by whole turns
PrincipalAngle(angle) ==
    CHOOSE principal \in -179..180 : (principal - angle) % 360 = 0

IsOthersOf(others, numberOfOthers, node, otherNodeNumber) ==
    IF node.NumberOfCurrents <= 1
    THEN others = <<>> /\ numberOfOthers = 0
    ELSE /\ numberOfOthers = node.NumberOfCurrents - 1
         /\ Len(others) = node.NumberOfCurrents - 1
         /\ \A position \in 1..(node.NumberOfCurrents - 1) :
                /\ others[position] # NULL
                /\ IsNormalizedFrom(others[position],
                       OtherSources(node, otherNodeNumber)[position],
                       node.RatedCurrent)

\* C12: in a built lineSample the other currents of a node with n >= 2
\* currents are its n - 1 currents without the one taken as the line
\* current, in their order, with their start and destination nodes and with
\* the magnitude divided by the node's rated current; a node with at most
\* one current has an empty list.
C12_OtherCurrentsAreTheRest ==
    (linePc = "built" /\ LineIsBuilt) =>
        /\ IsOthersOf(line.Node1OtherCurrentsNorm, line.NumberOfNode1OtherCurrents,
                      argNode1, argNode2.NodeNumber)
        /\ IsOthersOf(line.Node2OtherCurrentsNorm, line.NumberOfNode2OtherCurrents,
                      argNode2, argNode1.NodeNumber)

\* C12 witness: node1 has three currents, the line current in the middle
\* and a second current to node2 after it, and node2 has the line current
\* only: node1 keeps two other currents and node2 none
C12_Witness_LineCurrentInTheMiddle ==
    /\ linePc = "built" /\ LineIsBuilt
    /\ argNode2.NodeNumber = 2
    /\ argNode1.NumberOfCurrents = 3
    /\ FirstCurrentTo(argNode1, 2) = 2
    /\ argNode1.Currents[3].DestinationNodeNumber = 2
    /\ line.NumberOfNode1OtherCurrents = 2
    /\ line.Node1OtherCurrentsNorm[2].DestinationNodeNumber = 2
    /\ argNode2.NumberOfCurrents = 1
    /\ line.Node2OtherCurrentsNorm = <<>>

(***************************************************************************)
(* Properties of the classifier (Spec)                                     *)
(***************************************************************************)
\* the Distance of the labeled sample at position (from 1) to the query
DistanceOfSample(position) ==
    distanceSampleOf[SamplesWithKnownStatuses[position], SampleWithUnknownStatus].Distance

\* every labeled sample is a sample of the query's line
AllComparable ==
    \A position \in 1..NumberOfKnownStatuses :
        AreSamplesOfTheSameLine(SamplesWithKnownStatuses[position], SampleWithUnknownStatus)

\* the object is usable and holds the list of a scan that ran with the
\* current k, 1 <= k <= N
ListComplete ==
    /\ pc = "live"
    /\ numberOfNearestNeighbors <= NumberOfKnownStatuses
    /\ Len(distances) = numberOfNearestNeighbors

IsSortedAscending(dists, k) ==
    \A slot \in 1..(k - 1) : ~RLt(dists[slot + 1].Distance, dists[slot].Distance)

\* slot i holds the i-th smallest Distance of the labeled set: fewer than i
\* samples are nearer and at least i are as near
HoldsSmallest(dists, k) ==
    \A slot \in 1..k :
        /\ Cardinality({position \in 1..NumberOfKnownStatuses :
               RLt(DistanceOfSample(position), dists[slot].Distance)}) < slot
        /\ Cardinality({position \in 1..NumberOfKnownStatuses :
               ~RLt(dists[slot].Distance, DistanceOfSample(position))}) >= slot

\* C1: after the scan of all N samples, all comparable to the query, with
\* 1 <= k <= N, distances[0..k-1] is sorted ascending by Distance and holds
\* the k smallest distances of the labeled set.
C1_TopKSortedAndSmallest ==
    (ListComplete /\ AllComparable) =>
        /\ IsSortedAscending(distances, numberOfNearestNeighbors)
        /\ HoldsSmallest(distances, numberOfNearestNeighbors)

\* C1 witness: a completed scan with k < N over comparable samples in which
\* the last sample scanned is nearer than the first and took slot 0
C1_Witness_LateNearestSample ==
    /\ ListComplete /\ AllComparable
    /\ 1 < numberOfNearestNeighbors
    /\ numberOfNearestNeighbors < NumberOfKnownStatuses
    /\ RLt(DistanceOfSample(NumberOfKnownStatuses), DistanceOfSample(1))
    /\ distances[1].line = SamplesWithKnownStatuses[NumberOfKnownStatuses]

\* the number of the k slots whose IsWorking is true
WorkingNeighbours(dists, k) ==
    Cardinality({slot \in 1..k : dists[slot].IsWorking = TRUE})

\* C2: PredictStatus is true exactly when more than half of the k neighbours
\* are working (an equal split gives false), and the PredictedStatus left by
\* the constructor is that value.
C2_StrictMajorityVote ==
    ListComplete =>
        /\ PredictStatus(distances, numberOfNearestNeighbors) =
               (2 * WorkingNeighbours(distances, numberOfNearestNeighbors) >
                    numberOfNearestNeighbors)
        /\ lastOp = "construct" =>
               PredictedStatus =
                   (2 * WorkingNeighbours(distances, numberOfNearestNeighbors) >
                        numberOfNearestNeighbors)

\* C2 witness: a construction with an even k whose neighbours split equally,
\* predicting false
C2_Witness_EqualSplit ==
    /\ ListComplete /\ lastOp = "construct"
    /\ 2 * WorkingNeighbours(distances, numberOfNearestNeighbors) = numberOfNearestNeighbors
    /\ PredictedStatus = FALSE

\* C3: after a construction and any ChangeNumberOfNearestNeighbors calls, all
\* with a k within 1..N, PredictedStatus is the majority vote over the list
\* currently held.  (ChangeNumberOfNearestNeighbors rebuilds the list and
\* leaves PredictedStatus as the constructor set it.)
C3_PredictionFollowsCurrentList ==
    (ListComplete /\ onlyValid) =>
        PredictedStatus = PredictStatus(distances, numberOfNearestNeighbors)

\* C4: ChangeNumberOfNearestNeighbors(k') with k' # k and 1 <= k' <= N, over
\* comparable samples and after calls with a valid k only, leaves a usable object whose list has k' entries,
\* sorted ascending and holding the k' smallest distances, with the labeled
\* set and the query unchanged.  (The freeing loop of SetDistances runs to
\* the new k over the old array.)
C4_ChangeRebuildsList ==
    [][\A kNew \in 1..MaxNeighbors :
          (/\ kNew # numberOfNearestNeighbors
           /\ kNew <= NumberOfKnownStatuses
           /\ AllComparable /\ onlyValid
           /\ ChangeNumberOfNearestNeighbors(kNew))
          => /\ pc' = "live"
             /\ Len(distances') = kNew
             /\ IsSortedAscending(distances', kNew)
             /\ HoldsSmallest(distances', kNew)
             /\ UNCHANGED knnInputs]_vars

\* C5: a construction with k > N is rejected before any computation: no slot
\* of distances is read and PredictedStatus keeps its default.
C5_ConstructionRejectedBeforeComputation ==
    (lastOp = "construct" /\ numberOfNearestNeighbors > NumberOfKnownStatuses) =>
        /\ fault = "none"
        /\ pc = "live"
        /\ PredictedStatus = TRUE

\* C6: after construction the classifier's number of nearest neighbours is
\* the k the caller passed to the constructor.
C6_ConstructorUsesRequestedK ==
    lastOp = "construct" => numberOfNearestNeighbors = requested

\* C7: no slot of a completed list holds the distanceSample of a labeled
\* sample that is not comparable to the query (one whose line is NULL).
C7_MismatchedSampleNeverListed ==
    ListComplete =>
        \A slot \in 1..numberOfNearestNeighbors : distances[slot].line # 0

\* the query of the heap that differs from the given one in IsWorking only
TwinQuery(sampleWithUnknownStatus) ==
    CHOOSE twin \in UnknownPointers : twin # sampleWithUnknownStatus

\* the k the constructor ran with: knn takes it from the caller and has no
\* method to change it
ConstructedK ==
    IF cls = "knn" THEN numberOfNearestNeighbors ELSE DefaultNumberOfNearestNeighbors

\* C8: the list and PredictedStatus are those of the run that differs only in
\* the query's IsWorking: the list equals the scan of the same labeled set
\* with the twin query and the same k, and PredictedStatus equals the vote of
\* the twin's construction.
C8_QueryStatusIsNotInformation ==
    /\ ListComplete =>
           distances = NewDistances(SamplesWithKnownStatuses,
                                    TwinQuery(SampleWithUnknownStatus),
                                    numberOfNearestNeighbors)
    /\ (pc = "live" /\ lastOp # "none" /\ ConstructedK <= NumberOfKnownStatuses) =>
           PredictedStatus =
               PredictStatus(NewDistances(SamplesWithKnownStatuses,
                                          TwinQuery(SampleWithUnknownStatus),
                                          ConstructedK), ConstructedK)

\* C8 witness: a query marked not working whose neighbours are labeled
\* samples of its line and whose prediction is working
C8_Witness_NotWorkingQueryPredictedWorking ==
    /\ ListComplete /\ lastOp = "construct" /\ AllComparable
    /\ LineHeap[SampleWithUnknownStatus].IsWorking = FALSE
    /\ LineHeap[TwinQuery(SampleWithUnknownStatus)].IsWorking = TRUE
    /\ PredictedStatus = TRUE

\* the array of k slots after the scan has processed the first processed
\* labeled samples
RECURSIVE ScanUpTo(_, _, _, _)
ScanUpTo(known, unknown, k, processed) ==
    IF processed = 0 THEN [initializingIndex \in 1..k |-> NULL]
    ELSE ScanStep(known, unknown, ScanUpTo(known, unknown, k, processed - 1),
                  k, processed - 1)

\* the array after the first processed samples of the classifier's own scan
Prefix(processed) ==
    ScanUpTo(SamplesWithKnownStatuses, SampleWithUnknownStatus,
             numberOfNearestNeighbors, processed)

\* slot i of the first filled slots holds the i-th smallest Distance of the
\* first processed labeled samples
HoldsSmallestOfFirst(dists, filled, processed) ==
    \A slot \in 1..filled :
        /\ Cardinality({position \in 1..processed :
               RLt(DistanceOfSample(position), dists[slot].Distance)}) < slot
        /\ Cardinality({position \in 1..processed :
               ~RLt(dists[slot].Distance, DistanceOfSample(position))}) >= slot

\* C24: during the scan, after the labeled sample i (from 0) has been
\* processed, the first min(i + 1, k) slots are filled, sorted ascending by
\* Distance and hold the min(i + 1, k) smallest distances of the samples
\* 0..i, the one downward pass of adjacent swaps having restored this after
\* each insertion; the scan of all samples leaves the classifier's list.
C24_ScanKeepsPrefixSorted ==
    ListComplete =>
        \A processed \in 1..NumberOfKnownStatuses :
            \A prefix \in {Prefix(processed)},
               filled \in {IF processed < numberOfNearestNeighbors
                           THEN processed ELSE numberOfNearestNeighbors} :
                /\ \A slot \in 1..filled : prefix[slot] # NULL
                /\ \A slot \in (filled + 1)..numberOfNearestNeighbors :
                       prefix[slot] = NULL
                /\ IsSortedAscending(prefix, filled)
                /\ HoldsSmallestOfFirst(prefix, filled, processed)
                /\ processed = NumberOfKnownStatuses => prefix = distances

\* C24 witness: a scan with 1 < k < N whose last sample is nearer than the
\* first and was carried by the pass from slot k - 1 down to slot 0
C24_Witness_LastSampleCarriedToFront ==
    /\ ListComplete
    /\ 1 < numberOfNearestNeighbors
    /\ numberOfNearestNeighbors < NumberOfKnownStatuses
    /\ RLt(DistanceOfSample(NumberOfKnownStatuses), DistanceOfSample(1))
    /\ distances[1] = distanceSampleOf[SamplesWithKnownStatuses[NumberOfKnownStatuses],
                                       SampleWithUnknownStatus]
    /\ Prefix(NumberOfKnownStatuses - 1)[1] # distances[1]
    /\ Prefix(NumberOfKnownStatuses - 1)[1] = distances[2]

\* the distanceSample of the labeled sample processed as number processed
Candidate(processed) ==
    distanceSampleOf[SamplesWithKnownStatuses[processed], SampleWithUnknownStatus]

\* C25: a labeled sample of index i >= k replaces slot k - 1, followed by
\* the pass of SortDistances, only if its Distance is strictly less than the
\* Distance in slot k - 1; otherwise the list is left exactly as it was.
C25_CandidateReplacesOnlyIfNearer ==
    ListComplete =>
        \A processed \in (numberOfNearestNeighbors + 1)..NumberOfKnownStatuses :
            \A before \in {Prefix(processed - 1)}, after \in {Prefix(processed)} :
                IF RLt(Candidate(processed).Distance,
                       before[numberOfNearestNeighbors].Distance)
                THEN /\ after = SortLoop([before EXCEPT ![numberOfNearestNeighbors] =
                                             Candidate(processed)],
                                         numberOfNearestNeighbors - 1)
                     /\ \E slot \in 1..numberOfNearestNeighbors :
                            after[slot] = Candidate(processed)
                ELSE after = before

\* C25 witness: the last sample has the Distance of the last slot and another
\* status, and was discarded, and an earlier sample of index >= k was nearer
\* than the last slot and replaced it
C25_Witness_TieDiscarded ==
    /\ ListComplete
    /\ numberOfNearestNeighbors + 1 < NumberOfKnownStatuses
    /\ Candidate(NumberOfKnownStatuses).Distance =
           distances[numberOfNearestNeighbors].Distance
    /\ Candidate(NumberOfKnownStatuses).IsWorking #
           distances[numberOfNearestNeighbors].IsWorking
    /\ Prefix(NumberOfKnownStatuses - 1) = distances
    /\ Prefix(NumberOfKnownStatuses - 2) # Prefix(NumberOfKnownStatuses - 1)

\* the position in the labeled set of the sample that is number rank when
\* the samples are ordered by Distance and, among equal Distances, by position
PositionOfRank(rank) ==
    CHOOSE position \in 1..NumberOfKnownStatuses :
        Cardinality({earlier \in 1..NumberOfKnownStatuses :
            \/ RLt(DistanceOfSample(earlier), DistanceOfSample(position))
            \/ /\ DistanceOfSample(earlier) = DistanceOfSample(position)
               /\ earlier < position}) = rank - 1

\* C28: the list holds the k first samples of the labeled set ordered by
\* Distance and, among equal Distances, by position in the labeled set: equal
\* entries appear in increasing position and a later sample never displaces
\* an earlier one of equal Distance.
C28_SelectionIsStable ==
    ListComplete =>
        \A slot \in 1..numberOfNearestNeighbors :
            distances[slot] = Candidate(PositionOfRank(slot))

\* C28 witness: two samples of equal Distance and different status, the
\* earlier in the last slot and the later in no slot
C28_Witness_EarlierOfTwoEqualKept ==
    /\ ListComplete
    /\ \E earlier \in 1..NumberOfKnownStatuses, later \in 1..NumberOfKnownStatuses :
           /\ earlier < later
           /\ DistanceOfSample(earlier) = DistanceOfSample(later)
           /\ Candidate(earlier).IsWorking # Candidate(later).IsWorking
           /\ distances[numberOfNearestNeighbors] = Candidate(earlier)
           /\ \A slot \in 1..numberOfNearestNeighbors :
                  distances[slot] # Candidate(later)

\* the labeled set with the samples at two positions exchanged
Exchanged(first, second) ==
    [SamplesWithKnownStatuses EXCEPT ![first] = SamplesWithKnownStatuses[second],
                                     ![second] = SamplesWithKnownStatuses[first]]

DistancesOf(dists) == [slot \in DOMAIN dists |-> dists[slot].Distance]

\* every labeled sample whose Distance is that of the last slot has the
\* same status
CutTieHasOneStatus ==
    \A first \in 1..NumberOfKnownStatuses, second \in 1..NumberOfKnownStatuses :
        (/\ DistanceOfSample(first) = distances[numberOfNearestNeighbors].Distance
         /\ DistanceOfSample(second) = distances[numberOfNearestNeighbors].Distance)
        => Candidate(first).IsWorking = Candidate(second).IsWorking

\* C29 as stated: a construction over the same labeled samples in another
\* order (two of them exchanged, which generates every order) leaves the
\* same k Distances and the same PredictedStatus.
C29_OrderNeverMatters ==
    (ListComplete /\ lastOp = "construct") =>
        \A first \in 1..NumberOfKnownStatuses, second \in 1..NumberOfKnownStatuses :
            \A other \in {NewDistances(Exchanged(first, second), SampleWithUnknownStatus,
                                       numberOfNearestNeighbors)} :
                /\ DistancesOf(other) = DistancesOf(distances)
                /\ PredictStatus(other, numberOfNearestNeighbors) = PredictedStatus

\* C29 amended: a construction over the same labeled samples in another
\* order leaves the same k Distances, and the same PredictedStatus whenever
\* the labeled samples whose Distance is the k-th smallest all have the same
\* status.
C29_OrderMattersOnlyInCutTie ==
    (ListComplete /\ lastOp = "construct") =>
        \A first \in 1..NumberOfKnownStatuses, second \in 1..NumberOfKnownStatuses :
            \A other \in {NewDistances(Exchanged(first, second), SampleWithUnknownStatus,
                                       numberOfNearestNeighbors)} :
                /\ DistancesOf(other) = DistancesOf(distances)
                /\ CutTieHasOneStatus =>
                       PredictStatus(other, numberOfNearestNeighbors) = PredictedStatus

\* C29 witness: a construction with k < N over samples in which a working
\* and a not working sample are equally far, whose exchange leaves the
\* Distances and turns the prediction
C29_Witness_ExchangeTurnsPrediction ==
    /\ ListComplete /\ lastOp = "construct"
    /\ numberOfNearestNeighbors < NumberOfKnownStatuses
    /\ ~CutTieHasOneStatus
    /\ \E first \in 1..NumberOfKnownStatuses, second \in 1..NumberOfKnownStatuses :
           \E other \in {NewDistances(Exchanged(first, second), SampleWithUnknownStatus,
                                      numberOfNearestNeighbors)} :
               /\ DistancesOf(other) = DistancesOf(distances)
               /\ PredictStatus(other, numberOfNearestNeighbors) # PredictedStatus

\* C26: whenever a knnPredictionOfUnknownLineSample is usable and holds a
\* list, after a construction and any ChangeNumberOfNearestNeighbors calls,
\* rejected ones included, numberOfNearestNeighbors is the number of slots of
\* the list and every slot holds a distanceSample, so that Print and
\* PredictStatus read filled slots only.
C26_CountIsNumberOfSlots ==
    (cls = "knnPredictionOfUnknownLineSample" /\ pc = "live" /\ distances # <<>>) =>
        /\ numberOfNearestNeighbors = Len(distances)
        /\ ReadsOnlyFilledSlots(distances, numberOfNearestNeighbors)

\* C27: when ChangeNumberOfNearestNeighbors rebuilds a list of k_old slots,
\* the freeing loop visits the indices 0..k_old-1, all of them and no other,
\* and makes no invalid access.
C27_ReleaseVisitsTheOldSlots ==
    [][\A kNew \in 1..MaxNeighbors :
          (/\ distances # <<>>
           /\ ChangeNumberOfNearestNeighbors(kNew)
           /\ lastOp' = "change: rebuilt")
          => /\ FreeingIndices(kNew) = 0..(Len(distances) - 1)
             /\ fault' = "none"]_vars

(***************************************************************************)
(* Properties of distanceSample construction (SpecDistance)                *)
(***************************************************************************)
\* the two lineSample objects behind the pointers
Known == LineHeap[ptrKnown]
Unknown == LineHeap[ptrUnknown]

\* both pointers point at lineSamples that were built
BothBuilt ==
    /\ ptrKnown # 0 /\ ptrUnknown # 0
    /\ ~HasNullFeatures(ptrKnown) /\ ~HasNullFeatures(ptrUnknown)

\* the constructor has run on two built lineSamples
Compared == cmpPc = "built" /\ BothBuilt

\* the distanceSample holds a computed distance
DistanceProduced == made.line # 0

\* the distanceSample holds its member defaults
NothingProduced ==
    made = [line |-> 0, Distance |-> R(DefaultDistance), IsWorking |-> TRUE]

SameAddress(a, b) ==
    /\ a.StartNodeNumber = b.StartNodeNumber
    /\ a.DestinationNodeNumber = b.DestinationNodeNumber

\* the conditions of C13 on two built lineSamples
SameLineStructure(known, unknown) ==
    /\ SameAddress(known.Node1LineCurrentNorm, unknown.Node1LineCurrentNorm)
    /\ SameAddress(known.Node2LineCurrentNorm, unknown.Node2LineCurrentNorm)
    /\ known.Node1VoltageNorm.StartNodeNumber = unknown.Node1VoltageNorm.StartNodeNumber
    /\ known.Node2VoltageNorm.StartNodeNumber = unknown.Node2VoltageNorm.StartNodeNumber
    /\ known.NumberOfNode1OtherCurrents = unknown.NumberOfNode1OtherCurrents
    /\ known.NumberOfNode2OtherCurrents = unknown.NumberOfNode2OtherCurrents
    /\ \A position \in 1..known.NumberOfNode1OtherCurrents :
           SameAddress(known.Node1OtherCurrentsNorm[position],
                       unknown.Node1OtherCurrentsNorm[position])
    /\ \A position \in 1..known.NumberOfNode2OtherCurrents :
           SameAddress(known.Node2OtherCurrentsNorm[position],
                       unknown.Node2OtherCurrentsNorm[position])

\* C13: on two built lineSamples AreSamplesOfTheSameLine returns true if and
\* only if the line currents of node 1 have equal start and destination
\* nodes, so have those of node 2, the two voltages of each node have equal
\* start nodes, each node has equally many other currents, and the other
\* currents have equal start and destination nodes at every position; the
\* distanceSample holds a computed distance only when it returned true.
C13_SameLineIffSameStructure ==
    Compared =>
        /\ same <=> SameLineStructure(Known, Unknown)
        /\ DistanceProduced <=> same
        /\ ~same => NothingProduced

\* C13 witness: two built lineSamples that differ in nothing but the
\* destination node of an other current of node 1 were found not to be of
\* the same line, and no distance was produced
C13_Witness_OtherDestinationDiffers ==
    /\ Compared /\ ~same /\ NothingProduced
    /\ SameAddress(Known.Node1LineCurrentNorm, Unknown.Node1LineCurrentNorm)
    /\ SameAddress(Known.Node2LineCurrentNorm, Unknown.Node2LineCurrentNorm)
    /\ SameAddress(Known.Node1VoltageNorm, Unknown.Node1VoltageNorm)
    /\ SameAddress(Known.Node2VoltageNorm, Unknown.Node2VoltageNorm)
    /\ Known.Node2OtherCurrentsNorm = Unknown.Node2OtherCurrentsNorm
    /\ Known.NumberOfNode1OtherCurrents = 1
    /\ Unknown.NumberOfNode1OtherCurrents = 1
    /\ Known.Node1OtherCurrentsNorm[1].StartNodeNumber =
           Unknown.Node1OtherCurrentsNorm[1].StartNodeNumber
    /\ Known.Node1OtherCurrentsNorm[1].DestinationNodeNumber #
           Unknown.Node1OtherCurrentsNorm[1].DestinationNodeNumber

\* C14: two built lineSamples are found to be of the same line only if the
\* voltages of node 1 have equal start and destination nodes and so have the
\* voltages of node 2.
C14_VoltageAddressesIdentical ==
    (Compared /\ same) =>
        /\ SameAddress(Known.Node1VoltageNorm, Unknown.Node1VoltageNorm)
        /\ SameAddress(Known.Node2VoltageNorm, Unknown.Node2VoltageNorm)

\* what C15 lets two lineSamples differ in is left out: the node numbers, the
\* start and destination nodes and the counts remain
AddressOf(parameter) ==
    [StartNodeNumber |-> parameter.StartNodeNumber,
     DestinationNodeNumber |-> parameter.DestinationNodeNumber,
     NumberOfSamples |-> parameter.NumberOfSamples]

Addressing(sample) ==
    [node1 |-> sample.node1, node2 |-> sample.node2,
     Node1LineCurrentNorm |-> AddressOf(sample.Node1LineCurrentNorm),
     Node2LineCurrentNorm |-> AddressOf(sample.Node2LineCurrentNorm),
     Node1VoltageNorm |-> AddressOf(sample.Node1VoltageNorm),
     Node2VoltageNorm |-> AddressOf(sample.Node2VoltageNorm),
     NumberOfNode1OtherCurrents |-> sample.NumberOfNode1OtherCurrents,
     Node1OtherCurrentsNorm |->
        [position \in 1..sample.NumberOfNode1OtherCurrents |->
            AddressOf(sample.Node1OtherCurrentsNorm[position])],
     NumberOfNode2OtherCurrents |-> sample.NumberOfNode2OtherCurrents,
     Node2OtherCurrentsNorm |->
        [position \in 1..sample.NumberOfNode2OtherCurrents |->
            AddressOf(sample.Node2OtherCurrentsNorm[position])]]

\* the built lineSamples of the heap that differ from that of pointer in
\* IsWorking, units, names and phasor values at most
Twins(pointer) ==
    {twin \in DOMAIN LineHeap :
        /\ ~HasNullFeatures(twin)
        /\ Addressing(LineHeap[twin]) = Addressing(LineHeap[pointer])}

\* C15: the answer of AreSamplesOfTheSameLine on two built lineSamples is
\* the answer on every pair that differs from them in IsWorking, units,
\* names or phasor values only.
C15_AnswerDependsOnAddressingOnly ==
    Compared =>
        \A knownTwin \in Twins(ptrKnown), unknownTwin \in Twins(ptrUnknown) :
            AreSamplesOfTheSameLine(knownTwin, unknownTwin) = same

\* C15 witness: two lineSamples were found to be of the same line, and the
\* known one has a twin with another status, other units, other names and
\* another voltage
C15_Witness_TwinDiffersInEveryValue ==
    /\ Compared /\ same
    /\ \E knownTwin \in Twins(ptrKnown) :
           /\ LineHeap[knownTwin].IsWorking # Known.IsWorking
           /\ LineHeap[knownTwin].Node1VoltageNorm.Units # Known.Node1VoltageNorm.Units
           /\ LineHeap[knownTwin].Node1VoltageNorm.Name # Known.Node1VoltageNorm.Name
           /\ LineHeap[knownTwin].Node1VoltageNorm.Phasor # Known.Node1VoltageNorm.Phasor

\* a pointer the constructor needs is NULL: one of the two lineSample*, or
\* the features of a lineSample whose construction failed
NeedsNullPointer ==
    \/ ptrKnown = 0
    \/ ptrUnknown = 0
    \/ HasNullFeatures(ptrKnown)
    \/ HasNullFeatures(ptrUnknown)

\* C16: whenever one of the two lineSample* is NULL or points at a lineSample
\* whose features are NULL, the constructor returns, AreSamplesOfTheSameLine
\* has answered false and no distance was computed.
C16_NullPointerAnswersFalse ==
    (cmpPc # "new" /\ NeedsNullPointer) =>
        /\ cmpPc = "built"
        /\ ~same
        /\ NothingProduced

\* C17: the distanceSample of a built lineSample with itself has the
\* distance 0 and the lineSample's status.
C17_SelfDistanceIsZero ==
    (Compared /\ ptrKnown = ptrUnknown) =>
        /\ same
        /\ DistanceProduced
        /\ made.Distance = R(0)
        /\ made.IsWorking = Known.IsWorking

\* C17 witness: a lineSample that is not working, with nonzero features and
\* other currents at both nodes, was compared with itself
C17_Witness_NotWorkingSelf ==
    /\ Compared /\ ptrKnown = ptrUnknown
    /\ ~Known.IsWorking /\ ~made.IsWorking
    /\ Known.Node1LineCurrentNorm.Phasor.RMSvalue # R(0)
    /\ Known.NumberOfNode1OtherCurrents > 0
    /\ Known.NumberOfNode2OtherCurrents > 0
    /\ made.Distance = R(0)

\* |a - b|^2 of two parameters' phasors, from their rectangular parts
SquaredGap(a, b) ==
    RAdd(RSquare(RSub(a.Phasor.real, b.Phasor.real)),
         RSquare(RSub(a.Phasor.imaginary, b.Phasor.imaginary)))

RECURSIVE SumOfSquaredGaps(_, _, _)
SumOfSquaredGaps(knownOthers, unknownOthers, count) ==
    IF count = 0 THEN R(0)
    ELSE RAdd(SumOfSquaredGaps(knownOthers, unknownOthers, count - 1),
              SquaredGap(knownOthers[count], unknownOthers[count]))

\* the sum over the other currents of a node, each weighted wOther / (2 count);
\* 0, without a division, for a node without other currents
OtherCurrentsTerm(knownOthers, unknownOthers, count) ==
    IF count = 0 THEN R(0)
    ELSE RDiv(RMul(R(wOther), SumOfSquaredGaps(knownOthers, unknownOthers, count)),
              R(2 * count))

\* the right-hand side of C18
WeightedSumOfSquares(known, unknown) ==
    RAdd(RAdd(RMul(RDiv(R(wLine), R(2)),
                   RAdd(SquaredGap(known.Node1LineCurrentNorm,
                                   unknown.Node1LineCurrentNorm),
                        SquaredGap(known.Node2LineCurrentNorm,
                                   unknown.Node2LineCurrentNorm))),
              RMul(RDiv(R(wNode), R(2)),
                   RAdd(SquaredGap(known.Node1VoltageNorm, unknown.Node1VoltageNorm),
                        SquaredGap(known.Node2VoltageNorm, unknown.Node2VoltageNorm)))),
         RAdd(OtherCurrentsTerm(known.Node1OtherCurrentsNorm,
                                unknown.Node1OtherCurrentsNorm,
                                known.NumberOfNode1OtherCurrents),
              OtherCurrentsTerm(known.Node2OtherCurrentsNorm,
                                unknown.Node2OtherCurrentsNorm,
                                known.NumberOfNode2OtherCurrents)))

\* C18: for two lineSamples of the same line the distance is the square root
\* of (wLine/2)(|dI1|^2 + |dI2|^2) + (wNode/2)(|dV1|^2 + |dV2|^2) + the sum
\* over node 1's other currents of (wOther/(2 n1))|di|^2 + the sum over node
\* 2's other currents of (wOther/(2 n2))|di|^2, where a node without other
\* currents adds 0; the square of the distance is that sum whenever the sum
\* has a square root the double holds exactly.
C18_DistanceIsWeightedRootSumSquare ==
    (Compared /\ same) =>
        /\ made.Distance = RSqrt(WeightedSumOfSquares(Known, Unknown))
        /\ RSquare(RSqrt(WeightedSumOfSquares(Known, Unknown))) =
               WeightedSumOfSquares(Known, Unknown)
           => RSquare(made.Distance) = WeightedSumOfSquares(Known, Unknown)

\* C18 witness: node 1 has no other current, node 2 has two, the samples
\* differ in one other current of node 2 by 2, and the distance is 1: the
\* square root of (wOther / (2 * 2)) * 2^2
C18_Witness_NodeWithoutOtherCurrents ==
    /\ Compared /\ same
    /\ Known.NumberOfNode1OtherCurrents = 0
    /\ Known.NumberOfNode2OtherCurrents = 2
    /\ SumOfSquaredGaps(Known.Node2OtherCurrentsNorm,
                        Unknown.Node2OtherCurrentsNorm, 2) = R(4)
    /\ made.Distance = R(1)
    /\ RSquare(made.Distance) = WeightedSumOfSquares(Known, Unknown)

(***************************************************************************)
(* Properties of phasor division and Pow (SpecPhasor)                      *)
(***************************************************************************)
\* magnitude 0, angle 0, real part 0 and imaginary part 0
IsZeroPhasor(p) ==
    /\ p.RMSvalue = R(0)
    /\ p.PhaseAngleDegrees = 0
    /\ p.real = R(0)
    /\ p.imaginary = R(0)

\* C19: a phasor divided by a phasor of magnitude 0 is the zero phasor,
\* returned as an ordinary value after the condition was printed.
C19_DivisionByZeroGivesZeroPhasor ==
    (opPc = "divided" /\ opOther.RMSvalue = R(0)) =>
        /\ IsZeroPhasor(opResult)
        /\ opReport = "Error: Divisor phasor is 0."

\* C19 witness: a phasor of magnitude 3 at 90 degrees was divided by a
\* phasor of magnitude 0 at 270 degrees
C19_Witness_NonZeroOverZero ==
    /\ opPc = "divided"
    /\ opThis.RMSvalue = R(MaxRMS) /\ opThis.PhaseAngleDegrees = 90
    /\ opOther.RMSvalue = R(0) /\ opOther.PhaseAngleDegrees = 270
    /\ IsZeroPhasor(opResult)

InPrincipalRange(angle) == -180 < angle /\ angle <= 180

Wrapped(angle, raw) == InPrincipalRange(angle) /\ (angle - raw) % 360 = 0

\* C21: for all phasors a and b and every exponent p, the angle of a * b, of
\* a / b (b # 0) and of Pow(a, p) lies in (-180, 180] and differs from the
\* sum, the difference and the product of the angles by a multiple of 360,
\* and the two loops that wrap the angle come to an end.
C21_AnglesWrappedAndLoopsEnd ==
    /\ opPc # "hung"
    /\ opPc = "multiplied" =>
           Wrapped(opResult.PhaseAngleDegrees,
                   opThis.PhaseAngleDegrees + opOther.PhaseAngleDegrees)
    /\ (opPc = "divided" /\ opOther.RMSvalue # R(0)) =>
           Wrapped(opResult.PhaseAngleDegrees,
                   opThis.PhaseAngleDegrees - opOther.PhaseAngleDegrees)
    /\ (opPc = "raised" /\ opPowerExponent = 0) =>
           Wrapped(opResult.PhaseAngleDegrees, opThis.PhaseAngleDegrees * opPower)

\* C22: every phasor, however it was made (polar constructor with any angle,
\* default constructor, multiplication, division, power), has its angle in
\* (-180, 180].
C22_EveryPhasorInPrincipalRange ==
    /\ InPrincipalRange(opThis.PhaseAngleDegrees)
    /\ InPrincipalRange(opOther.PhaseAngleDegrees)
    /\ InPrincipalRange(opResult.PhaseAngleDegrees)

(***************************************************************************)
(* Properties of a parameter built from samples (SpecParameter)            *)
(***************************************************************************)
\* C23: a parameter built from 0 or 1 samples reports the insufficient number
\* of samples, has the zero phasor (magnitude 0, angle 0), and its
\* constructor reads none of the samples.
C23_TooFewSamplesGiveZeroPhasor ==
    (parPc = "built" /\ Voltage # NULL /\ Voltage.NumberOfSamples < 2) =>
        /\ parReport = "Insufficient number of samples to calculate a phasor."
        /\ Voltage.Phasor.RMSvalue = R(0)
        /\ Voltage.Phasor.PhaseAngleDegrees = 0
        /\ Voltage.Phasor.real = R(0)
        /\ Voltage.Phasor.imaginary = R(0)
        /\ sampleReads = {}

\* C23 witness: a parameter was built from the single sample 1
C23_Witness_OneNonZeroSample ==
    /\ parPc = "built"
    /\ Voltage # NULL
    /\ bufferContents = <<1>>
    /\ Voltage.NumberOfSamples = 1
    /\ parReport = "Insufficient number of samples to calculate a phasor."

\* C30: the sample array handed to a parameter is released at most once, also
\* when a lineSample has copied the parameter and both the copy and the
\* nodeSample's parameter are destroyed.
C30_ArrayReleasedAtMostOnce == bufferReleases <= 1

====
